---- MODULE Spec2Model ----
(***************************************************************************)
(* A model of the sharded LRU cache of util/cache.cc: LRUHandle entries    *)
(* on a heap, HandleTable, LRUCache (one shard), ShardedLRUCache, and the  *)
(* eviction of real entries into a ghost cache (LRUCache::Insert with a    *)
(* ghost).  Every LRUCache method runs under MutexLock l(&mutex_), so one  *)
(* method call on one shard is one atomic step.  size_t and uint32_t        *)
(* fields are naturals: the charges and counts of the model stay far below *)
(* the widths, so no step of it wraps.                                     *)
(***************************************************************************)
EXTENDS Integers, Sequences, FiniteSets, TLC

\* ------------------------------------------------------------ bounds
\* Number of LRUHandle allocations (malloc calls) in one behaviour.
MaxEntries == 3
\* Number of client handles that may be outstanding at a time.
MaxHandles == 2
\* Largest charge a client passes to Insert.
MaxCharge == 2
\* Largest value (an opaque pointer) a client passes to Insert.
MaxValue == 2
MaxAdjusts == 2
\* Threads, and calls each thread makes.
NThreads == 2
MaxCalls == 2

\* ------------------------------------------------------------ constants
kNumShardBits == 4
kNumShards == 2 ^ kNumShardBits
NULL == 0

Caches == {"real", "ghost"}
Handles == 1 .. MaxEntries
Charges == 1 .. MaxCharge
Values == 1 .. MaxValue

\* The keys of the model and their 32-bit hashes.  Keys 1, 2 and 3 fall in
\* shard 0 and in the same bucket (hash & 3 = 1); keys 1 and 2 have the same
\* hash and differ only in their bytes; key 4 falls in shard 1.
Keys == {1, 2, 3, 4}
Hash(key) ==
  CASE key = 1 -> 5
    [] key = 2 -> 5
    [] key = 3 -> 9
    [] OTHER -> 2 ^ 28 + 2

HashSlice(s) == Hash(s)
Shard(hash) == hash \div (2 ^ (32 - kNumShardBits))

\* The shards the state keeps: those the keys of the model fall in, and the
\* last one, which stands for the shards no key of the model reaches.  Such
\* a shard only ever has its capacity_ set: it stays empty, adds 0 to
\* TotalCharge, and Prune and the destructor find nothing in it.
Shards ==
  {s \in 0 .. (kNumShards - 1) :
     s = kNumShards - 1 \/ \E key \in Keys : Shard(HashSlice(key)) = s}

\* new int(old->charge): a size_t converted to a 32-bit int (two's complement;
\* the values a state can hold are below 2^32).
ToInt(x) == IF x > 2147483647 THEN x - 2147483647 - 2147483647 - 2 ELSE x

\* ------------------------------------------------------------ state
VARIABLES
  heap,       \* handle -> LRUHandle (or NoEntry when not allocated / freed)
  shard,      \* cache -> shard index -> LRUCache
  deleted,    \* handle -> number of times its deleter was invoked
  delInTable, \* handles that were in a hash table when their deleter ran
  nextH,      \* the next handle malloc returns
  removed,    \* what the eviction loops of the last operation removed, or
              \* the mark of a Prune that removed something
  failed,     \* an assert of the code failed
  held,       \* handle -> number of client handles outstanding on it
  stored,     \* handle -> the value the client passed to the Insert that made it
  destroyed,  \* the caches have been destroyed
  anyLookup,  \* history: a Lookup has hit
  insOverlap, \* history: an Insert was called while a handle was outstanding
  looked,     \* history: cached entries that a Lookup has hit
  untouched,  \* history: entry k -> the cached entries of its shard that were
              \* not looked up, inserted or released since the last Lookup of k
  capacity_,  \* cache -> ShardedLRUCache::capacity_ (the tracked total)
  accumulateAdjustment, \* AdaptiveCache::accumulateAdjustment
  ghostHit,   \* the caller's int that AdaptiveCache::Lookup takes by reference
  evicted,    \* history: key -> the charge its entry had when an eviction
              \* loop last moved it from real to ghost, 0 if never
  adjusts,    \* history: number of AdaptiveCache::AdjustCapacity calls
  thr,        \* thread -> where it is in the call it makes, and its locals
  mutex,      \* lock -> the thread that holds it, 0 if none
  last_id_,   \* ShardedLRUCache::last_id_ of real
  ids,        \* history: the ids NewId returned, in the order of its returns
  kp,         \* PointCache::kp, a second AdaptiveCache: its caches (w), their
              \* tracked totals (capacity_) and its accumulateAdjustment;
              \* PointCache::kv and BlockCache::bk are the AdaptiveCache of
              \* the variables above
  passed      \* history: the arguments of the last PointCache::AdjustCapacity
              \* and what it passed to kv and to kp, <<>> if none

hvars == <<anyLookup, insOverlap, looked, untouched>>

avars == <<capacity_, accumulateAdjustment, ghostHit, evicted, adjusts>>

tvars == <<thr, mutex, last_id_, ids>>

pvars == <<kp, passed>>

vars == <<heap, shard, deleted, delInTable, nextH, removed, failed, held,
          stored, destroyed, hvars, pvars, avars, tvars>>

Threads == 1 .. NThreads

\* The locks: id_mutex_ of the real cache, mutex_ of the AdaptiveCache and the
\* mutex_ of every shard of real and ghost.
Locks == {<<"id_mutex_", 0>>, <<"mutex_", 0>>} \cup (Caches \X Shards)

\* A thread that has made n calls and is in none.
Idle(n) ==
  [pc |-> "idle", op |-> "", n |-> n, key |-> 0, value |-> 0, charge |-> 0,
   h |-> 0, c |-> "real", s |-> 0, first |-> "real", sum |-> 0, sum2 |-> 0,
   tmp |-> 0, snap |-> <<>>]

NoEntry ==
  [live |-> FALSE, key |-> 0, hash |-> 0, value |-> 0, charge |-> 0,
   in_cache |-> FALSE, refs |-> 0]

\* ------------------------------------------------------------ helpers
\* A size_t n is kept as n when it is small and as n - 2^64 when a negative
\* adjustment wrapped it to just below 2^64; sums are then the sums of
\* size_t, and SizeLess is the order of size_t.
SizeLess(a, b) == IF (a < 0) = (b < 0) THEN a < b ELSE b < 0

\* Division of int by a positive int: the quotient is truncated towards zero.
IntDiv(a, b) == IF a >= 0 THEN a \div b ELSE (a + (b - 1)) \div b

RECURSIVE Without(_, _)
Without(seq, e) ==
  IF seq = <<>> THEN <<>>
  ELSE IF Head(seq) = e THEN Without(Tail(seq), e)
  ELSE <<Head(seq)>> \o Without(Tail(seq), e)

Range(seq) == {seq[i] : i \in 1 .. Len(seq)}

RECURSIVE SumCharge(_, _)
SumCharge(hp, S) ==
  IF S = {} THEN 0
  ELSE LET e == CHOOSE x \in S : TRUE IN hp[e].charge + SumCharge(hp, S \ {e})

\* ------------------------------------------------------------ HandleTable
RECURSIVE FindIndex(_, _, _, _, _)
FindIndex(hp, chain, i, key, hash) ==
  IF i > Len(chain) THEN i
  ELSE IF ~(hp[chain[i]].hash # hash \/ key # hp[chain[i]].key) THEN i
  ELSE FindIndex(hp, chain, i + 1, key, hash)

\* The slot FindPointer returns: bucket b, position i in its chain
\* (i = Len(chain) + 1 is the trailing slot).
FindPointer(hp, t, key, hash) ==
  LET b == hash % t.length_
  IN [b |-> b, i |-> FindIndex(hp, t.list_[b], 1, key, hash)]

Deref(t, p) ==
  IF p.i > Len(t.list_[p.b]) THEN NULL ELSE t.list_[p.b][p.i]

HandleTable_Lookup(hp, t, key, hash) == Deref(t, FindPointer(hp, t, key, hash))

RECURSIVE NewLength(_, _)
NewLength(n, elems) == IF n < elems THEN NewLength(n * 2, elems) ELSE n

RECURSIVE AllChains(_, _)
AllChains(t, i) ==
  IF i >= t.length_ THEN <<>> ELSE t.list_[i] \o AllChains(t, i + 1)

RECURSIVE Rehash(_, _, _, _)
Rehash(hp, hs, new_list, new_length) ==
  IF hs = <<>> THEN new_list
  ELSE LET h == Head(hs)
           b == hp[h].hash % new_length
       IN Rehash(hp, Tail(hs),
                 [new_list EXCEPT ![b] = <<h>> \o @], new_length)

Resize(hp, t) ==
  LET new_length == NewLength(4, t.elems_)
      all == AllChains(t, 0)
  IN [length_ |-> new_length, elems_ |-> t.elems_,
      list_ |-> Rehash(hp, all, [b \in 0 .. (new_length - 1) |-> <<>>],
                       new_length)]

\* HandleTable() : length_(0), elems_(0), list_(nullptr) { Resize(); }
HandleTable_New ==
  Resize([h \in {} |-> NoEntry],
         [length_ |-> 0, elems_ |-> 0, list_ |-> [b \in {} |-> <<>>]])

\* Insert that links h in without looking for an entry of the same key.
HandleTable_Insert_Dup(hp, t, h) ==
  LET p == FindPointer(hp, t, hp[h].key, hp[h].hash)
      t1 == [t EXCEPT !.list_[p.b] = Append(@, h), !.elems_ = @ + 1]
      t2 == IF t1.elems_ > t1.length_ THEN Resize(hp, t1) ELSE t1
  IN [t |-> t2, old |-> NULL]

\* Returns the table and the displaced entry.
HandleTable_Insert(hp, t, h) ==
  LET p == FindPointer(hp, t, hp[h].key, hp[h].hash)
      old == Deref(t, p)
      t1 == [t EXCEPT !.list_[p.b] =
                IF old = NULL THEN Append(@, h) ELSE [@ EXCEPT ![p.i] = h]]
      t2 == IF old = NULL THEN [t1 EXCEPT !.elems_ = @ + 1] ELSE t1
      t3 == IF old = NULL /\ t2.elems_ > t2.length_ THEN Resize(hp, t2) ELSE t2
  IN [t |-> t3, old |-> old]

\* Returns the table and the removed entry.
HandleTable_Remove(hp, t, key, hash) ==
  LET p == FindPointer(hp, t, key, hash)
      result == Deref(t, p)
  IN IF result # NULL
     THEN [t |-> [t EXCEPT !.list_[p.b] = Without(@, result),
                           !.elems_ = @ - 1],
           result |-> result]
     ELSE [t |-> t, result |-> NULL]

TableEntries(t) == UNION {Range(t.list_[b]) : b \in DOMAIN t.list_}

\* ------------------------------------------------------------ LRUCache
\* A world w is the part of the state the cache code reads and writes:
\* [heap, shard, deleted, delInTable, nextH, removed, failed].

LRUCache_New ==
  [capacity_ |-> 0, usage_ |-> 0, lru_ |-> <<>>, in_use_ |-> <<>>,
   table_ |-> HandleTable_New]

SetCapacity(sh, capacity) == [sh EXCEPT !.capacity_ = capacity]

\* AdjustCapacity that empties the lru_ list at once.
LRUCache_AdjustCapacity_Eager(sh, capacity) ==
  [sh EXCEPT !.capacity_ = @ + capacity, !.lru_ = <<>>]

\* void AdjustCapacity(int capacity) { capacity_ += capacity; }
LRUCache_AdjustCapacity(sh, capacity) ==
  [sh EXCEPT !.capacity_ = @ + capacity]

LRU_Remove(w, c, s, e) ==
  [w EXCEPT !.shard[c][s].lru_ = Without(@, e),
            !.shard[c][s].in_use_ = Without(@, e)]

\* LRU_Append that links the entry in as the oldest of the list.
LRU_Append_Oldest(w, c, s, list, e) ==
  [w EXCEPT !.shard[c][s][list] = <<e>> \o @]

LRU_Append(w, c, s, list, e) ==
  [w EXCEPT !.shard[c][s][list] = Append(@, e)]

\* Ref that leaves the entry on lru_.
Ref_NoMove(w, c, s, e) == [w EXCEPT !.heap[e].refs = @ + 1]

\* Ref without "e->refs++".
Ref_NoCount(w, c, s, e) ==
  IF w.heap[e].refs = 1 /\ w.heap[e].in_cache
  THEN LRU_Append(LRU_Remove(w, c, s, e), c, s, "in_use_", e)
  ELSE w

Ref(w, c, s, e) ==
  LET w1 == IF w.heap[e].refs = 1 /\ w.heap[e].in_cache
            THEN LRU_Append(LRU_Remove(w, c, s, e), c, s, "in_use_", e)
            ELSE w
  IN [w1 EXCEPT !.heap[e].refs = @ + 1]

\* Unref that leaves an entry whose last handle is gone on in_use_.
Unref_NoMove(w, c, s, e) ==
  LET h == w.heap[e]
      refs == h.refs - 1
      w1 == [w EXCEPT !.heap[e].refs = refs,
                      !.failed = @ \/ ~(h.refs > 0)]
  IN IF refs = 0
     THEN [w1 EXCEPT !.failed = @ \/ h.in_cache,
                     !.deleted[e] = @ + 1,
                     !.delInTable =
                        IF e \in TableEntries(w.shard[c][s].table_)
                        THEN @ \cup {e} ELSE @,
                     !.heap[e] = NoEntry]
     ELSE w1

Unref(w, c, s, e) ==
  LET h == w.heap[e]
      refs == h.refs - 1
      w1 == [w EXCEPT !.heap[e].refs = refs,
                      !.failed = @ \/ ~(h.refs > 0)]
  IN IF refs = 0
     THEN [w1 EXCEPT !.failed = @ \/ h.in_cache,
                     !.deleted[e] = @ + 1,
                     !.delInTable =
                        IF e \in TableEntries(w.shard[c][s].table_)
                        THEN @ \cup {e} ELSE @,
                     !.heap[e] = NoEntry]
     ELSE IF h.in_cache /\ refs = 1
     THEN LRU_Append(LRU_Remove(w1, c, s, e), c, s, "lru_", e)
     ELSE w1

\* FinishErase without "usage_ -= e->charge".
FinishErase_KeepUsage(w, c, s, e) ==
  IF e # NULL
  THEN LET w1 == [LRU_Remove(w, c, s, e) EXCEPT
                    !.failed = @ \/ ~w.heap[e].in_cache,
                    !.heap[e].in_cache = FALSE]
       IN Unref(w1, c, s, e)
  ELSE w

FinishErase(w, c, s, e) ==
  IF e # NULL
  THEN LET w1 == [LRU_Remove(w, c, s, e) EXCEPT
                    !.failed = @ \/ ~w.heap[e].in_cache,
                    !.heap[e].in_cache = FALSE,
                    !.shard[c][s].usage_ = @ - w.heap[e].charge]
       IN Unref(w1, c, s, e)
  ELSE w

\* One pass of an eviction loop body after "old" was chosen: remove it from
\* the table and finish erasing it; the log keeps what was removed.
EvictOne(w, c, s, old) ==
  LET r == HandleTable_Remove(w.heap, w.shard[c][s].table_,
                              w.heap[old].key, w.heap[old].hash)
      w1 == [w EXCEPT !.shard[c][s].table_ = r.t,
                      !.failed = @ \/ ~(w.heap[old].refs = 1)
                                   \/ r.result = NULL,
                      !.removed = Append(@, [by |-> "Insert", c |-> c, s |-> s,
                                             e |-> old,
                                             key |-> w.heap[old].key,
                                             charge |-> w.heap[old].charge,
                                             refs |-> w.heap[old].refs])]
  IN FinishErase(w1, c, s, r.result)

\* An eviction loop that takes the newest entry of lru_.
RECURSIVE EvictLoop_Newest(_, _, _)
EvictLoop_Newest(w, c, s) ==
  LET sh == w.shard[c][s]
  IN IF SizeLess(sh.capacity_, sh.usage_) /\ sh.lru_ # <<>> /\ ~w.failed
     THEN EvictLoop_Newest(EvictOne(w, c, s, sh.lru_[Len(sh.lru_)]), c, s)
     ELSE w

\* An eviction loop that stops after one entry.
EvictLoop_Once(w, c, s) ==
  LET sh == w.shard[c][s]
  IN IF SizeLess(sh.capacity_, sh.usage_) /\ sh.lru_ # <<>> /\ ~w.failed
     THEN EvictOne(w, c, s, Head(sh.lru_))
     ELSE w

\* while (usage_ > capacity_ && lru_.next != &lru_) { ... }
RECURSIVE EvictLoop(_, _, _)
EvictLoop(w, c, s) ==
  LET sh == w.shard[c][s]
  IN IF SizeLess(sh.capacity_, sh.usage_) /\ sh.lru_ # <<>> /\ ~w.failed
     THEN EvictLoop(EvictOne(w, c, s, Head(sh.lru_)), c, s)
     ELSE w

\* Insert that puts the entry in the cache whatever capacity_ is.
NewEntry_AlwaysCache(w, c, s, key, hash, value, charge) ==
  LET e == w.nextH
      wa == [w EXCEPT !.nextH = e + 1,
                      !.heap[e] = [live |-> TRUE, key |-> key, hash |-> hash,
                                   value |-> value, charge |-> charge,
                                   in_cache |-> TRUE, refs |-> 2]]
      wb == LRU_Append(wa, c, s, "in_use_", e)
      wc == [wb EXCEPT !.shard[c][s].usage_ = @ + charge]
      r == HandleTable_Insert(wc.heap, wc.shard[c][s].table_, e)
      wd == [wc EXCEPT !.shard[c][s].table_ = r.t]
  IN FinishErase(wd, c, s, r.old)

\* The entry Insert allocates and, when capacity_ > 0, puts in the cache.
NewEntry(w, c, s, key, hash, value, charge) ==
  LET e == w.nextH
      w0 == [w EXCEPT !.nextH = e + 1,
                      !.heap[e] = [live |-> TRUE, key |-> key, hash |-> hash,
                                   value |-> value, charge |-> charge,
                                   in_cache |-> FALSE, refs |-> 1]]
  IN IF SizeLess(0, w0.shard[c][s].capacity_)
     THEN LET wa == [w0 EXCEPT !.heap[e].refs = @ + 1,
                               !.heap[e].in_cache = TRUE]
              wb == LRU_Append(wa, c, s, "in_use_", e)
              wc == [wb EXCEPT !.shard[c][s].usage_ = @ + charge]
              r == HandleTable_Insert(wc.heap, wc.shard[c][s].table_, e)
              wd == [wc EXCEPT !.shard[c][s].table_ = r.t]
          IN FinishErase(wd, c, s, r.old)
     ELSE w0

LRUCache_Insert(w, c, s, key, hash, value, charge) ==
  [w |-> EvictLoop(NewEntry(w, c, s, key, hash, value, charge), c, s),
   h |-> w.nextH]

LRUCache_Lookup(w, c, s, key, hash) ==
  LET e == HandleTable_Lookup(w.heap, w.shard[c][s].table_, key, hash)
  IN [w |-> IF e # NULL THEN Ref(w, c, s, e) ELSE w, h |-> e]

\* Release that destroys the entry whatever its reference count.
LRUCache_Release_Free(w, c, s, handle) ==
  Unref([w EXCEPT !.heap[handle].refs = 1, !.heap[handle].in_cache = FALSE],
        c, s, handle)

LRUCache_Release(w, c, s, handle) == Unref(w, c, s, handle)

\* Erase that finishes the erase of the entry without table_.Remove.
LRUCache_Erase_KeepTable(w, c, s, key, hash) ==
  FinishErase(w, c, s, HandleTable_Lookup(w.heap, w.shard[c][s].table_,
                                          key, hash))

LRUCache_Erase(w, c, s, key, hash) ==
  LET r == HandleTable_Remove(w.heap, w.shard[c][s].table_, key, hash)
  IN FinishErase([w EXCEPT !.shard[c][s].table_ = r.t], c, s, r.result)

\* Prune that removes the oldest entry of lru_ only.
LRUCache_Prune_One(w, c, s) ==
  LET sh == w.shard[c][s]
  IN IF sh.lru_ # <<>>
     THEN LET e == Head(sh.lru_)
              r == HandleTable_Remove(w.heap, sh.table_,
                                      w.heap[e].key, w.heap[e].hash)
              w1 == [w EXCEPT !.shard[c][s].table_ = r.t,
                              !.removed = <<[by |-> "Prune", c |-> c,
                                             s |-> s, e |-> NULL, key |-> NULL,
                                             charge |-> 0, refs |-> 1]>>]
          IN FinishErase(w1, c, s, r.result)
     ELSE w

RECURSIVE LRUCache_Prune(_, _, _)
LRUCache_Prune(w, c, s) ==
  LET sh == w.shard[c][s]
  IN IF sh.lru_ # <<>> /\ ~w.failed
     THEN LET e == Head(sh.lru_)
              r == HandleTable_Remove(w.heap, sh.table_,
                                      w.heap[e].key, w.heap[e].hash)
              w1 == [w EXCEPT !.shard[c][s].table_ = r.t,
                              !.failed = @ \/ ~(w.heap[e].refs = 1)
                                           \/ r.result = NULL,
                              !.removed = <<[by |-> "Prune", c |-> c,
                                             s |-> s, e |-> NULL, key |-> NULL,
                                             charge |-> 0, refs |-> 1]>>]
          IN LRUCache_Prune(FinishErase(w1, c, s, r.result), c, s)
     ELSE w

LRUCache_TotalCharge(w, c, s) == w.shard[c][s].usage_

\* ~LRUCache() that forgets to Unref the entries.
DestroyList_Leak(w, c, s, es) ==
  [w EXCEPT !.heap = [e \in Handles |->
                        IF e \in Range(es) THEN [@[e] EXCEPT !.in_cache = FALSE]
                        ELSE @[e]]]

\* ~LRUCache()
RECURSIVE DestroyList(_, _, _, _)
DestroyList(w, c, s, es) ==
  IF es = <<>> THEN w
  ELSE LET e == Head(es)
           w1 == [w EXCEPT !.failed = @ \/ ~w.heap[e].in_cache
                                        \/ ~(w.heap[e].refs = 1),
                           !.heap[e].in_cache = FALSE]
       IN DestroyList(Unref(w1, c, s, e), c, s, Tail(es))

LRUCache_Destroy(w, c, s) ==
  LET w1 == [w EXCEPT !.failed = @ \/ w.shard[c][s].in_use_ # <<>>]
  IN DestroyList(w1, c, s, w.shard[c][s].lru_)

\* ------------------------------------------------------------ ShardedLRUCache
ShardedLRUCache_New(capacity) ==
  LET per_shard == (capacity + (kNumShards - 1)) \div kNumShards
  IN [s \in Shards |-> SetCapacity(LRUCache_New, per_shard)]

ShardedLRUCache_Insert(w, c, key, value, charge) ==
  LET hash == HashSlice(key)
  IN LRUCache_Insert(w, c, Shard(hash), key, hash, value, charge)

ShardedLRUCache_Lookup(w, c, key) ==
  LET hash == HashSlice(key)
  IN LRUCache_Lookup(w, c, Shard(hash), key, hash)

ShardedLRUCache_Release(w, c, handle) ==
  LRUCache_Release(w, c, Shard(w.heap[handle].hash), handle)

ShardedLRUCache_Erase(w, c, key) ==
  LET hash == HashSlice(key)
  IN LRUCache_Erase(w, c, Shard(hash), key, hash)

ShardedLRUCache_Value(w, handle) == w.heap[handle].value

RECURSIVE SumUsage(_, _, _)
SumUsage(w, c, s) ==
  IF s >= kNumShards THEN 0
  ELSE IF s \notin Shards THEN SumUsage(w, c, s + 1)
  ELSE LRUCache_TotalCharge(w, c, s) + SumUsage(w, c, s + 1)

ShardedLRUCache_TotalCharge(w, c) == SumUsage(w, c, 0)

\* ~ShardedLRUCache destroys shard_[0 .. kNumShards - 1]; the destructor of
\* a shard whose lists are both empty changes nothing.
RECURSIVE DestroyShards(_, _, _)
DestroyShards(w, c, s) ==
  IF s >= kNumShards THEN w
  ELSE IF s \notin Shards
            \/ (w.shard[c][s].lru_ = <<>> /\ w.shard[c][s].in_use_ = <<>>)
  THEN DestroyShards(w, c, s + 1)
  ELSE DestroyShards(LRUCache_Destroy(w, c, s), c, s + 1)

\* AdjustCapacity without the floor of 8 << 18.
ShardedLRUCache_AdjustCapacity_NoFloor(sh, cap, adjustment) ==
  [shard |-> [s \in Shards |->
                LRUCache_AdjustCapacity(sh[s], IntDiv(adjustment, kNumShards))],
   capacity_ |-> cap + adjustment]

\* ShardedLRUCache::AdjustCapacity on the shards sh and the tracked total cap
\* of one cache.
ShardedLRUCache_AdjustCapacity(sh, cap, adjustment) ==
  IF adjustment < 0 /\ SizeLess(cap, 8 * 2^18)
  THEN [shard |-> sh, capacity_ |-> cap]
  ELSE [shard |-> [s \in Shards |->
                     LRUCache_AdjustCapacity(sh[s],
                                             IntDiv(adjustment, kNumShards))],
        capacity_ |-> cap + adjustment]

ShardedLRUCache_GetCapacity(cap) == cap

\* ------------------------------------------------ LRUCache::Insert with ghost
RECURSIVE EvictLoopGhost(_, _, _, _)
EvictLoopGhost(w, c, s, ghost) ==
  LET sh == w.shard[c][s]
  IN IF SizeLess(sh.capacity_, sh.usage_) /\ sh.lru_ # <<>> /\ ~w.failed
     THEN LET old == Head(sh.lru_)
              hd == ShardedLRUCache_Insert(w, ghost, w.heap[old].key,
                                           ToInt(w.heap[old].charge), 1)
              w1 == ShardedLRUCache_Release(hd.w, ghost, hd.h)
          IN EvictLoopGhost(EvictOne(w1, c, s, old), c, s, ghost)
     ELSE w

LRUCache_InsertGhost(w, c, s, key, hash, value, charge, ghost) ==
  [w |-> EvictLoopGhost(NewEntry(w, c, s, key, hash, value, charge),
                        c, s, ghost),
   h |-> w.nextH]

ShardedLRUCache_InsertARC(w, c, key, value, charge, ghost) ==
  LET hash == HashSlice(key)
  IN LRUCache_InsertGhost(w, c, Shard(hash), key, hash, value, charge, ghost)

\* ------------------------------------------------------------ the system
\* Total capacities the caches are constructed with: the real cache with 0
\* (caching off) or 32 (2 per shard), the ghost cache with 16 (1 per shard).
RealCapacities == {0, 32}
GhostCapacities == {16}

\* What the clients of the model insert: key 1 with value i and charge i,
\* keys 2, 3 and 4 with value 1 and charge 1.
Inputs ==
  {in \in Keys \X Values \X Charges :
     \/ in[1] = 1 /\ in[2] = in[3]
     \/ in[1] # 1 /\ in[2] = 1 /\ in[3] = 1}

RECURSIVE SumTo(_, _)
SumTo(f, n) == IF n = 0 THEN 0 ELSE f[n] + SumTo(f, n - 1)

\* Number of client handles outstanding.
TotalHeld == SumTo(held, MaxEntries)

World ==
  [heap |-> heap, shard |-> shard, deleted |-> deleted,
   delInTable |-> delInTable, nextH |-> nextH, removed |-> <<>>,
   failed |-> failed]

Commit(w) ==
  /\ heap' = w.heap
  /\ shard' = w.shard
  /\ deleted' = w.deleted
  /\ delInTable' = w.delInTable
  /\ nextH' = w.nextH
  /\ removed' = w.removed
  /\ failed' = w.failed

\* The client forgets what it stored in an entry when the deleter runs.
Forget(w, st) == [e \in Handles |-> IF w.heap[e].live THEN st[e] ELSE 0]

\* The caches as constructed, before any call.
NewWorld(cap) ==
  [heap |-> [e \in Handles |-> NoEntry],
   shard |-> [c \in Caches |->
                IF c = "real" THEN ShardedLRUCache_New(cap[1])
                ELSE ShardedLRUCache_New(cap[2])],
   deleted |-> [e \in Handles |-> 0], delInTable |-> {},
   nextH |-> 1, removed |-> <<>>, failed |-> FALSE]

\* The state after the construction of a real cache of the given capacity
\* and a ghost cache of capacity gcapacity.
InitCaches(capacity, gcapacity) ==
  /\ heap = [e \in Handles |-> NoEntry]
  /\ shard = [c \in Caches |->
                IF c = "real" THEN ShardedLRUCache_New(capacity)
                ELSE ShardedLRUCache_New(gcapacity)]
  /\ capacity_ = [c \in Caches |->
                    IF c = "real" THEN capacity ELSE gcapacity]
  /\ deleted = [e \in Handles |-> 0]
  /\ delInTable = {}
  /\ nextH = 1
  /\ removed = <<>>
  /\ failed = FALSE
  /\ held = [e \in Handles |-> 0]
  /\ stored = [e \in Handles |-> 0]
  /\ destroyed = FALSE
  /\ anyLookup = FALSE
  /\ insOverlap = FALSE
  /\ looked = {}
  /\ untouched = [e \in Handles |-> {}]
  /\ accumulateAdjustment = 0
  /\ ghostHit = 0
  /\ evicted = [key \in Keys |-> 0]
  /\ adjusts = 0
  /\ thr = [t \in Threads |-> Idle(0)]
  /\ mutex = [l \in Locks |-> 0]
  /\ last_id_ = 0
  /\ ids = <<>>
  /\ kp = [w |-> NewWorld(<<capacity, gcapacity>>),
           capacity_ |-> [c \in Caches |->
                            IF c = "real" THEN capacity ELSE gcapacity],
           accumulateAdjustment |-> 0]
  /\ passed = <<>>

Init ==
  \E capacity \in RealCapacities, gcapacity \in GhostCapacities :
     InitCaches(capacity, gcapacity)

\* Cache::Insert on the real cache; the caller keeps the returned handle.
InsertStep(key, value, charge) ==
  /\ ~destroyed
  /\ TotalHeld < MaxHandles
  /\ nextH <= MaxEntries
  /\ LET r == ShardedLRUCache_Insert(World, "real", key, value, charge)
     IN /\ Commit(r.w)
        /\ held' = [held EXCEPT ![r.h] = 1]
        /\ stored' = Forget(r.w, [stored EXCEPT ![r.h] = value])
  /\ UNCHANGED destroyed

\* AdaptiveCache::Insert: real->InsertARC(key, value, charge, ghost, deleter)
InsertARCStep(key, value, charge) ==
  /\ ~destroyed
  /\ TotalHeld < MaxHandles
  /\ nextH <= MaxEntries
     \* one allocation for the entry and one per entry removed into the ghost
  /\ nextH + Len(ShardedLRUCache_Insert(World, "real", key, value,
                                        charge).w.removed) <= MaxEntries
  /\ LET r == ShardedLRUCache_InsertARC(World, "real", key, value, charge,
                                        "ghost")
     IN /\ Commit(r.w)
        /\ held' = [held EXCEPT ![r.h] = 1]
        /\ stored' = Forget(r.w, [stored EXCEPT ![r.h] = value])
  /\ UNCHANGED destroyed

LookupStep(key) ==
  /\ ~destroyed
  /\ LET r == ShardedLRUCache_Lookup(World, "real", key)
     IN /\ r.h # NULL => TotalHeld < MaxHandles
        /\ Commit(r.w)
        /\ held' = IF r.h # NULL THEN [held EXCEPT ![r.h] = @ + 1] ELSE held
  /\ UNCHANGED <<stored, destroyed>>

\* Release of a handle the client holds (REQUIRES: not released yet).
ReleaseStep(handle) ==
  /\ ~destroyed
  /\ held[handle] > 0
  /\ LET w == ShardedLRUCache_Release(World, "real", handle)
     IN /\ Commit(w)
        /\ stored' = Forget(w, stored)
  /\ held' = [held EXCEPT ![handle] = @ - 1]
  /\ UNCHANGED destroyed

EraseStep(key) ==
  /\ ~destroyed
  /\ LET w == ShardedLRUCache_Erase(World, "real", key)
     IN /\ Commit(w)
        /\ stored' = Forget(w, stored)
  /\ UNCHANGED <<held, destroyed>>

\* LRUCache::Prune of one shard; ShardedLRUCache::Prune calls it shard by
\* shard, each call under that shard's mutex only.
PruneStep(s) ==
  /\ ~destroyed
  /\ LET w == LRUCache_Prune(World, "real", s)
     IN /\ Commit(w)
        /\ stored' = Forget(w, stored)
  /\ UNCHANGED <<held, destroyed>>

\* Destruction of the caches (~LRUCache of every shard of real and ghost);
\* the caller must hold no handle.
DestroyStep ==
  /\ ~destroyed
  /\ \A e \in Handles : held[e] = 0
  /\ LET w == DestroyShards(DestroyShards(World, "real", 0), "ghost", 0)
     IN /\ Commit(w)
        /\ stored' = Forget(w, stored)
  /\ destroyed' = TRUE
  /\ UNCHANGED held

Insert == (\E in \in Inputs : InsertStep(in[1], in[2], in[3])) /\ UNCHANGED <<hvars, pvars, avars, tvars>>
InsertARC ==
  (\E in \in Inputs : InsertARCStep(in[1], in[2], in[3])) /\ UNCHANGED <<hvars, pvars, avars, tvars>>
Lookup == (\E key \in Keys : LookupStep(key)) /\ UNCHANGED <<hvars, pvars, avars, tvars>>
Release == (\E handle \in Handles : ReleaseStep(handle)) /\ UNCHANGED <<hvars, pvars, avars, tvars>>
Erase == (\E key \in Keys : EraseStep(key)) /\ UNCHANGED <<hvars, pvars, avars, tvars>>
\* (Prune of a shard whose LRU list is empty changes nothing.)
Prune ==
  /\ \E s \in Shards : shard["real"][s].lru_ # <<>> /\ PruneStep(s)
  /\ UNCHANGED <<hvars, pvars, avars, tvars>>
Destroy == DestroyStep /\ UNCHANGED <<hvars, pvars, avars, tvars>>

Next == Insert \/ InsertARC \/ Lookup \/ Release \/ Erase \/ Prune \/ Destroy

Spec == Init /\ [][Next]_vars

\* ------------------------------------------------ the system with its history
\* The same operations, recording which entries the client touched.  hit is
\* the entry a Lookup returned, rel the handle released, ins says the step is
\* an Insert.
Track(hit, rel, ins) ==
  /\ anyLookup' = (anyLookup \/ hit # NULL)
  /\ insOverlap' = (insOverlap \/ (ins /\ TotalHeld > 0))
  /\ looked' = {k \in looked \cup ({hit} \ {NULL}) : heap'[k].in_cache}
  /\ untouched' =
       [k \in Handles |->
          IF k \notin looked' THEN {}
          ELSE IF k = hit
          THEN LET sh == shard'["real"][Shard(heap'[k].hash)]
               IN Range(sh.lru_ \o sh.in_use_) \ {k}
          ELSE {f \in untouched[k] \ {hit, rel} : heap'[f].in_cache}]
  /\ UNCHANGED <<avars, tvars, pvars>>

\* The history runs insert the keys of one shard with charge 1: the order
\* of evictions is a matter of one shard.
HistInputs == {in \in Inputs : Shard(HashSlice(in[1])) = 0 /\ in[3] = 1}

HInsert ==
  \E in \in HistInputs : InsertStep(in[1], in[2], in[3]) /\ Track(NULL, NULL, TRUE)
HInsertARC ==
  \E in \in HistInputs :
     InsertARCStep(in[1], in[2], in[3]) /\ Track(NULL, NULL, TRUE)
HLookup ==
  \E key \in Keys :
     /\ LookupStep(key)
     /\ Track(HandleTable_Lookup(heap, shard["real"][Shard(HashSlice(key))].table_,
                                 key, HashSlice(key)), NULL, FALSE)
HRelease ==
  \E handle \in Handles : ReleaseStep(handle) /\ Track(NULL, handle, FALSE)
HErase == \E key \in Keys : EraseStep(key) /\ Track(NULL, NULL, FALSE)
HPrune ==
  \E s \in Shards :
     shard["real"][s].lru_ # <<>> /\ PruneStep(s) /\ Track(NULL, NULL, FALSE)
HDestroy == DestroyStep /\ Track(NULL, NULL, FALSE)

HNext ==
  HInsert \/ HInsertARC \/ HLookup \/ HRelease \/ HErase \/ HPrune \/ HDestroy

SpecHist == Init /\ [][HNext]_vars

\* ------------------------------------------------------------ AdaptiveCache
\* Lookup that never asks the ghost cache.
AdaptiveCache_Lookup_RealOnly(w, key, g) ==
  LET r == ShardedLRUCache_Lookup(w, "real", key)
  IN [w |-> r.w, h |-> r.h, ghostHit |-> g]

\* AdaptiveCache::Lookup(key, ghostHit); g is the value of the caller's int.
AdaptiveCache_Lookup(w, key, g) ==
  LET r == ShardedLRUCache_Lookup(w, "real", key)
  IN IF r.h # NULL THEN [w |-> r.w, h |-> r.h, ghostHit |-> g]
     ELSE LET gl == ShardedLRUCache_Lookup(w, "ghost", key)
          IN IF gl.h # NULL
             THEN [w |-> ShardedLRUCache_Release(gl.w, "ghost", gl.h),
                   h |-> NULL,
                   ghostHit |-> ShardedLRUCache_Value(gl.w, gl.h)]
             ELSE [w |-> gl.w, h |-> NULL, ghostHit |-> g]

\* static_cast<int> of a double that is not a number: undefined; the builds
\* give INT_MIN (x86 cvttsd2si) or 0 (ARM fcvtzs).
INT_MIN == -2147483647 - 1
UndefinedInts == {INT_MIN, 0}

\* static_cast<int>(adjustment * ratio / (ratio + 1.0)) and
\* static_cast<int>(adjustment / (ratio + 1.0)) for ratio = g / r with
\* r > 0, as adjustment * part / den with part = g (or r) and den = g + r:
\* the cast truncates the double quotient towards zero.  With g = 0 the
\* double arithmetic is exact.  With g > 0 the rounding of the doubles
\* matters only when the exact quotient is an integer q: the double
\* quotient is then q or a rounding error inside it, and the cast gives q or
\* the integer before it (err = 1).  (The quotient is taken in two parts,
\* adjustment = q0 * den + rem, to stay within 32 bits.)
QuotientToInt(adjustment, part, den, inexact, err) ==
  LET q0 == IntDiv(adjustment, den)
      rem == adjustment - q0 * den
      q == q0 * part + IntDiv(rem * part, den)
  IN IF inexact /\ (rem * part) % den = 0 /\ q # 0
     THEN (IF q > 0 THEN q - err ELSE q + err)
     ELSE q

\* The two arguments AdaptiveCache::AdjustCapacity passes on, given the
\* total charges g of ghost and r of real.  With r = 0 the ratio is infinite
\* (g > 0) or not a number (g = 0): the share of real is then
\* adjustment / infinity = 0, or undefined, and the share of ghost is the
\* cast of a double that is not a number.
Shares(adjustment, g, r, undef, eg, er) ==
  IF r > 0
  THEN [ghost |-> QuotientToInt(adjustment, g, g + r, g > 0, eg),
        real |-> QuotientToInt(adjustment, r, g + r, g > 0, er)]
  ELSE [ghost |-> undef, real |-> IF g > 0 THEN 0 ELSE undef]

\* AdjustCapacity that applies every adjustment at once, without threshold.
AdaptiveCache_AdjustCapacity_NoGate(w, sh, cap, acc, adjustment, undef, eg, er) ==
  LET sr == Shares(adjustment, ShardedLRUCache_TotalCharge(w, "ghost"),
                   ShardedLRUCache_TotalCharge(w, "real"), undef, eg, er)
      ag == ShardedLRUCache_AdjustCapacity(sh["ghost"], cap["ghost"], sr.ghost)
      ar == ShardedLRUCache_AdjustCapacity(sh["real"], cap["real"], sr.real)
  IN [shard |-> [c \in Caches |-> IF c = "real" THEN ar.shard ELSE ag.shard],
      capacity_ |-> [c \in Caches |->
                       IF c = "real" THEN ar.capacity_ ELSE ag.capacity_],
      accumulateAdjustment |-> 0]

\* AdaptiveCache::AdjustCapacity on the shards sh, the tracked totals cap and
\* the accumulator acc.
AdaptiveCache_AdjustCapacity(w, sh, cap, acc, adjustment, undef, eg, er) ==
  LET acc1 == acc + adjustment
  IN IF acc1 > 4096 \/ acc1 < -4096
     THEN LET sr == Shares(adjustment,
                           ShardedLRUCache_TotalCharge(w, "ghost"),
                           ShardedLRUCache_TotalCharge(w, "real"),
                           undef, eg, er)
              ag == ShardedLRUCache_AdjustCapacity(sh["ghost"], cap["ghost"],
                                                   sr.ghost)
              ar == ShardedLRUCache_AdjustCapacity(sh["real"], cap["real"],
                                                   sr.real)
          IN [shard |-> [c \in Caches |->
                           IF c = "real" THEN ar.shard ELSE ag.shard],
              capacity_ |-> [c \in Caches |->
                               IF c = "real" THEN ar.capacity_
                               ELSE ag.capacity_],
              accumulateAdjustment |-> 0]
     ELSE [shard |-> sh, capacity_ |-> cap, accumulateAdjustment |-> acc1]

\* The adjustments the clients of the model ask for: half the threshold
\* (two of them reach it, without exceeding it), one more than that, and
\* the whole capacity of the larger cache returned.
Adjustments == {2048, 2049, -(8 * 2^18)}

\* What the clients of the adaptive cache insert: keys of one shard.
AdaptiveInputs == {in \in Inputs : in[1] \in {1, 2}}

\* Capacities (real, ghost) an AdaptiveCache is constructed with: 1 per shard,
\* or the least capacity that ShardedLRUCache::AdjustCapacity shrinks.
AdaptiveCapacities == {<<16, 16>>, <<8 * 2^18, 8 * 2^18>>}

AInit == \E cap \in AdaptiveCapacities : InitCaches(cap[1], cap[2])

\* The charges of the entries the eviction loops of the last Insert moved
\* from real to ghost, by key.
Evicted(log, old) ==
  [key \in Keys |->
     LET is == {i \in 1 .. Len(log) :
                  log[i].c = "real" /\ log[i].by = "Insert"
                  /\ log[i].key = key}
     IN IF is = {} THEN old[key]
        ELSE log[CHOOSE i \in is : \A j \in is : j <= i].charge]

AdaptiveLookupStep(key) ==
  /\ ~destroyed
  /\ LET r == AdaptiveCache_Lookup(World, key, ghostHit)
     IN /\ r.h # NULL => TotalHeld < MaxHandles
        /\ Commit(r.w)
        /\ held' = IF r.h # NULL THEN [held EXCEPT ![r.h] = @ + 1] ELSE held
        /\ stored' = Forget(r.w, stored)
        /\ ghostHit' = r.ghostHit
  /\ UNCHANGED destroyed

\* AdaptiveCache::AdjustCapacity(adjustment); the model follows a cache up
\* to MaxAdjusts calls and until an adjustment wraps a capacity below 0.
AdjustCapacityStep(adjustment, undef, eg, er) ==
  /\ ~destroyed
  /\ adjusts < MaxAdjusts
  /\ \A c \in Caches : capacity_[c] >= 0
  /\ LET r == AdaptiveCache_AdjustCapacity(World, shard, capacity_,
                                           accumulateAdjustment, adjustment,
                                           undef, eg, er)
     IN /\ shard' = r.shard
        /\ capacity_' = r.capacity_
        /\ accumulateAdjustment' = r.accumulateAdjustment
  /\ adjusts' = adjusts + 1
  /\ removed' = <<>>
  /\ UNCHANGED <<heap, deleted, delInTable, nextH, failed, held, stored,
                 destroyed>>

AInsert ==
  /\ \E in \in AdaptiveInputs : InsertARCStep(in[1], in[2], in[3])
  /\ evicted' = Evicted(removed', evicted)
  /\ UNCHANGED <<hvars, pvars, tvars, capacity_, accumulateAdjustment, ghostHit,
                 adjusts>>
ALookup ==
  /\ \E key \in Keys : AdaptiveLookupStep(key)
  /\ UNCHANGED <<hvars, pvars, tvars, capacity_, accumulateAdjustment, evicted,
                 adjusts>>
ARelease ==
  (\E handle \in Handles : ReleaseStep(handle)) /\ UNCHANGED <<hvars, pvars, avars, tvars>>

AAdjust ==
  /\ \E adjustment \in Adjustments :
       LET flush == accumulateAdjustment + adjustment > 4096
                    \/ accumulateAdjustment + adjustment < -4096
           g == ShardedLRUCache_TotalCharge(World, "ghost")
           r == ShardedLRUCache_TotalCharge(World, "real")
       IN \* the inputs that bear on the outcome
          \E undef \in IF flush /\ r = 0 THEN UndefinedInts ELSE {0},
             eg \in IF flush /\ r > 0 /\ g > 0 /\ (adjustment * g) % (g + r) = 0
                    THEN {0, 1} ELSE {0},
             er \in IF flush /\ r > 0 /\ g > 0 /\ (adjustment * r) % (g + r) = 0
                    THEN {0, 1} ELSE {0} :
            AdjustCapacityStep(adjustment, undef, eg, er)
  /\ UNCHANGED <<hvars, pvars, tvars, ghostHit, evicted>>

ANext == AInsert \/ ALookup \/ ARelease \/ AAdjust

SpecAdaptive == AInit /\ [][ANext]_vars

\* ------------------------------------------------ a cache in use
\* An AdaptiveCache later in its life.  Constructed with the capacities cap,
\* it has served Insert(1, 2, charge 2), Release, Insert(2, 1, charge 1),
\* Release: the second Insert found usage_ 3 over the capacity_ 2 of the
\* shard and evicted key 1, that is, it called ghost->Insert(1, new int(2),
\* 1, deleter) and ghost->Release, and freed the entry of key 1.  The state
\* keeps the two entries that are allocated, numbered 1 and 2; the clients
\* go on from there with MaxEntries - 2 more allocations.
UsedCapacities == {<<32, 16>>, <<32, 8 * 2^18>>}

GInit ==
  \E cap \in UsedCapacities :
  \E r \in {ShardedLRUCache_InsertARC(NewWorld(cap), "real", 2, 1, 1, "ghost")} :
  \E w1 \in {ShardedLRUCache_Release(r.w, "real", r.h)} :
  \E g \in {ShardedLRUCache_Insert(w1, "ghost", 1, 2, 1)} :
  \E w \in {ShardedLRUCache_Release(g.w, "ghost", g.h)} :
     /\ heap = w.heap
     /\ shard = w.shard
     /\ nextH = w.nextH
     /\ capacity_ = [c \in Caches |-> IF c = "real" THEN cap[1] ELSE cap[2]]
     /\ deleted = [e \in Handles |-> 0]
     /\ delInTable = {}
     /\ removed = <<>>
     /\ failed = FALSE
     /\ held = [e \in Handles |-> 0]
     /\ stored = [e \in Handles |-> IF e = 1 THEN 1 ELSE 0]
     /\ destroyed = FALSE
     /\ anyLookup = FALSE
     /\ insOverlap = FALSE
     /\ looked = {}
     /\ untouched = [e \in Handles |-> {}]
     /\ accumulateAdjustment = 0
     /\ ghostHit = 0
     /\ evicted = [key \in Keys |-> IF key = 1 THEN 2 ELSE 0]
     /\ adjusts = 0
     /\ thr = [t \in Threads |-> Idle(0)]
     /\ mutex = [l \in Locks |-> 0]
     /\ last_id_ = 0
     /\ ids = <<>>
     /\ kp = [w |-> NewWorld(cap), capacity_ |-> capacity_,
              accumulateAdjustment |-> 0]
     /\ passed = <<>>

SpecUsed == GInit /\ [][ANext]_vars

\* ------------------------------------------------ capacity adjustment
\* The clients call ShardedLRUCache::AdjustCapacity of real themselves,
\* between Inserts (with and without ghost), Lookups and Releases.
Adjusted == {"real"}

\* The adjustments they ask for: one that leaves a residue of 1, the whole
\* of a capacity of 8 << 18 but 1 per shard, and 1 per shard more than the
\* whole of it.
ShardedAdjustments == {17, -(8 * 2^18) + 16, -(8 * 2^18) - 16}

\* ShardedLRUCache::AdjustCapacity(adjustment) of cache c; the model follows
\* a behaviour up to MaxAdjusts calls.
ShardedAdjustStep(c, adjustment) ==
  /\ ~destroyed
  /\ adjusts < MaxAdjusts
  /\ LET r == ShardedLRUCache_AdjustCapacity(shard[c], capacity_[c],
                                             adjustment)
     IN /\ shard' = [shard EXCEPT ![c] = r.shard]
        /\ capacity_' = [capacity_ EXCEPT ![c] = r.capacity_]
  /\ adjusts' = adjusts + 1
  /\ removed' = <<>>
  /\ UNCHANGED <<heap, deleted, delInTable, nextH, failed, held, stored,
                 destroyed>>

CInsert ==
  /\ \E in \in AdaptiveInputs : InsertStep(in[1], in[2], in[3])
  /\ UNCHANGED <<hvars, pvars, avars, tvars>>
CLookup ==
  /\ \E in \in AdaptiveInputs : LookupStep(in[1])
  /\ UNCHANGED <<hvars, pvars, avars, tvars>>
CAdjust ==
  /\ \E c \in Adjusted, adjustment \in ShardedAdjustments :
       ShardedAdjustStep(c, adjustment)
  /\ UNCHANGED <<hvars, pvars, tvars, accumulateAdjustment, ghostHit, evicted>>

CNext == CInsert \/ AInsert \/ CLookup \/ ARelease \/ CAdjust

SpecCapacity == AInit /\ [][CNext]_vars

\* ------------------------------------------------------------ PointCache
\* A PointCache has two AdaptiveCaches: kv, the one of the variables heap,
\* shard, capacity_ and accumulateAdjustment, and kp.  The clients insert
\* into kv and into kp, keeping the handles (up to MaxHandles on each), and
\* call AdjustCapacity.
AdaptiveCache_TotalCharge(w) ==
  ShardedLRUCache_TotalCharge(w, "real") + ShardedLRUCache_TotalCharge(w, "ghost")

\* PointCache::AdjustCapacity on kv (its caches w, shards sh, totals cap and
\* accumulator acc) and kp (the record p).  ratio is kvc / kpc; with
\* kpc = 0 it is infinite or not a number, ratio / (1.0 + ratio) is not a
\* number, and the conversion of the first argument to int is undefined;
\* the second argument, adjustment / (1.0 + ratio), is then 0 if kvc > 0
\* and undefined if not.  rd, rv and rp are the rounding errors <<of the
\* first share, of the second>> in this call and in those of kv and of kp.
PointCache_AdjustCapacity(w, sh, cap, acc, p, adjustment, undef, rd, rv, rp) ==
  LET kvc == AdaptiveCache_TotalCharge(w)
      kpc == AdaptiveCache_TotalCharge(p.w)
      tokv == IF kpc > 0
              THEN QuotientToInt(adjustment, kvc, kvc + kpc, kvc > 0, rd[1])
              ELSE undef
      tokp == IF kpc > 0
              THEN QuotientToInt(adjustment, kpc, kvc + kpc, kvc > 0, rd[2])
              ELSE IF kvc > 0 THEN 0 ELSE undef
      a == AdaptiveCache_AdjustCapacity(w, sh, cap, acc, tokv, undef,
                                        rv[1], rv[2])
      b == AdaptiveCache_AdjustCapacity(p.w, p.w.shard, p.capacity_,
                                        p.accumulateAdjustment, tokp, undef,
                                        rp[1], rp[2])
  IN [kv |-> a,
      kp |-> [w |-> [p.w EXCEPT !.shard = b.shard],
              capacity_ |-> b.capacity_,
              accumulateAdjustment |-> b.accumulateAdjustment],
      passed |-> [adjustment |-> adjustment, kvc |-> kvc, kpc |-> kpc,
                  kv |-> tokv, kp |-> tokp]]

\* The model follows a PointCache up to MaxAdjusts calls of AdjustCapacity
\* and until an adjustment wraps a capacity below 0.
PointAdjustStep(adjustment, undef, rd, rv, rp) ==
  /\ ~destroyed
  /\ adjusts < MaxAdjusts
  /\ \A c \in Caches : capacity_[c] >= 0 /\ kp.capacity_[c] >= 0
  /\ \E r \in {PointCache_AdjustCapacity(World, shard, capacity_,
                                          accumulateAdjustment, kp,
                                          adjustment, undef, rd, rv, rp)} :
        /\ shard' = r.kv.shard
        /\ capacity_' = r.kv.capacity_
        /\ accumulateAdjustment' = r.kv.accumulateAdjustment
        /\ kp' = r.kp
        /\ passed' = r.passed
  /\ adjusts' = adjusts + 1
  /\ removed' = <<>>
  /\ UNCHANGED <<heap, deleted, delInTable, nextH, failed, held, stored,
                 destroyed>>

\* What the clients insert into kv and kp: key 1, with charge 1 or 2.
PointInputs == {in \in AdaptiveInputs : in[1] = 1}

\* PointCache::InsertKV: kv->Insert(key, value, charge, deleter).
PInsertKV ==
  /\ \E in \in PointInputs : InsertARCStep(in[1], in[2], in[3])
  /\ evicted' = Evicted(removed', evicted)
  /\ UNCHANGED <<hvars, pvars, tvars, capacity_, accumulateAdjustment,
                 ghostHit, adjusts>>

\* PointCache::InsertKP: kp->Insert(key, value, charge, deleter).
PInsertKP ==
  /\ \E in \in PointInputs :
       /\ kp.w.nextH <= MaxHandles
       /\ \E r \in {ShardedLRUCache_InsertARC(kp.w, "real", in[1], in[2],
                                               in[3], "ghost")} :
             kp' = [kp EXCEPT !.w = [r.w EXCEPT !.removed = <<>>]]
  /\ UNCHANGED <<heap, shard, deleted, delInTable, nextH, removed, failed,
                 held, stored, destroyed, hvars, avars, tvars, passed>>

Rounds == {0, 1} \X {0, 1}

PAdjust ==
  /\ \E adjustment \in Adjustments :
       LET kvc == AdaptiveCache_TotalCharge(World)
           kpc == AdaptiveCache_TotalCharge(kp.w)
           \* the inputs that bear on the outcome
           both(g, r) == IF g > 0 /\ r > 0 THEN Rounds ELSE {<<0, 0>>}
       IN \E undef \in UndefinedInts,
             rd \in both(kvc, kpc),
             rv \in both(ShardedLRUCache_TotalCharge(World, "ghost"),
                         ShardedLRUCache_TotalCharge(World, "real")),
             rp \in both(ShardedLRUCache_TotalCharge(kp.w, "ghost"),
                         ShardedLRUCache_TotalCharge(kp.w, "real")) :
            PointAdjustStep(adjustment, undef, rd, rv, rp)
  /\ UNCHANGED <<hvars, tvars, ghostHit, evicted>>

PNext == PInsertKV \/ PInsertKP \/ PAdjust

SpecPoint == AInit /\ [][PNext]_vars

\* ------------------------------------------------------------ BlockCache
\* The methods of Cache that an AdaptiveCache does not support, and those
\* of a BlockCache, which passes every call on to its AdaptiveCache bk (the
\* one of the variables).  A failed assert ends the program.
\* An Erase that erases the key from real.
AdaptiveCache_Erase_Real(w, key) == ShardedLRUCache_Erase(w, "real", key)

\* Cache::Handle* AdaptiveCache::Lookup(const Slice& key):
\* assert(false); return nullptr;
AdaptiveCache_LookupKey(w, key) == [w |-> [w EXCEPT !.failed = TRUE], h |-> NULL]

\* void AdaptiveCache::Erase(const Slice& key) { assert(false); }
AdaptiveCache_Erase(w, key) == [w EXCEPT !.failed = TRUE]

\* void AdaptiveCache::Prune() { assert(false); }
AdaptiveCache_Prune(w) == [w EXCEPT !.failed = TRUE]

\* BlockCache::Lookup(key) { return bk->Lookup(key); }
BlockCache_LookupKey(w, key) == AdaptiveCache_LookupKey(w, key)

\* BlockCache::Erase(key) { bk->Erase(key); }
BlockCache_Erase(w, key) == AdaptiveCache_Erase(w, key)

UnsupportedOps ==
  {"AdaptiveCache::Lookup", "AdaptiveCache::Erase", "AdaptiveCache::Prune",
   "BlockCache::Lookup", "BlockCache::Erase"}

\* A call of one of these methods; a Lookup returns no handle.
UnsupportedStep(op, key) ==
  /\ ~destroyed
  /\ Commit(CASE op = "AdaptiveCache::Lookup" ->
                    AdaptiveCache_LookupKey(World, key).w
               [] op = "AdaptiveCache::Erase" -> AdaptiveCache_Erase(World, key)
               [] op = "AdaptiveCache::Prune" -> AdaptiveCache_Prune(World)
               [] op = "BlockCache::Lookup" -> BlockCache_LookupKey(World, key).w
               [] op = "BlockCache::Erase" -> BlockCache_Erase(World, key))
  /\ UNCHANGED <<held, stored, destroyed>>

BUnsupported ==
  /\ \E op \in UnsupportedOps, key \in Keys : UnsupportedStep(op, key)
  /\ UNCHANGED <<hvars, pvars, avars, tvars>>

BNext ==
  \/ ~failed /\ AInsert
  \/ ~failed /\ ALookup
  \/ ~failed /\ ARelease
  \/ ~failed /\ BUnsupported

SpecBlock == AInit /\ [][BNext]_vars

\* ------------------------------------------------------------ threads
\* Several threads call one AdaptiveCache.  A call is a sequence of steps:
\* taking a mutex is a step of its own, enabled when the mutex is free; what
\* the code does while it holds the mutex follows, the last step releasing it.
Holds(t) == {l \in Locks : mutex[l] = t}

\* MutexLock l(&m): the constructor blocks until m is free and takes it.
Lock(t, l) == mutex[l] = 0 /\ mutex' = [mutex EXCEPT ![l] = t]

\* A thread that is in no call starts a call at pc, with the given locals.
Call(t, pc, locals) ==
  /\ thr[t].pc = "idle"
  /\ thr[t].n < MaxCalls
  /\ thr' = [thr EXCEPT ![t] = [locals @@ Idle(thr[t].n + 1) EXCEPT !.pc = pc]]

\* The call of t returns.
Return(t) == thr' = [thr EXCEPT ![t] = Idle(thr[t].n)]

Goto(t, pc, locals) ==
  thr' = [thr EXCEPT ![t] = [locals @@ thr[t] EXCEPT !.pc = pc]]

cvars == <<heap, shard, deleted, delInTable, nextH, removed, failed, held,
           stored, destroyed>>

\* uint64_t NewId() { MutexLock l(&id_mutex_); return ++(last_id_); }
\* A NewId that does not wait for id_mutex_.
NewId_Lock_NoWait(t) ==
  /\ thr[t].pc = "NewId_lock"
  /\ mutex' = [mutex EXCEPT ![<<"id_mutex_", 0>>] = t]
  /\ Goto(t, "NewId_read", <<>>)
  /\ UNCHANGED <<cvars, hvars, pvars, avars, last_id_, ids>>

NewId_Call(t) ==
  /\ Call(t, "NewId_lock", <<>>)
  /\ UNCHANGED <<cvars, hvars, pvars, avars, mutex, last_id_, ids>>

NewId_Lock(t) ==
  /\ thr[t].pc = "NewId_lock"
  /\ Lock(t, <<"id_mutex_", 0>>)
  /\ Goto(t, "NewId_read", <<>>)
  /\ UNCHANGED <<cvars, hvars, pvars, avars, last_id_, ids>>

\* ++(last_id_) reads last_id_ ...
NewId_Read(t) ==
  /\ thr[t].pc = "NewId_read"
  /\ Goto(t, "NewId_write", [tmp |-> last_id_])
  /\ UNCHANGED <<cvars, hvars, pvars, avars, mutex, last_id_, ids>>

\* ... and writes it, one more; the new value is returned, l is destroyed.
NewId_Write(t) ==
  /\ thr[t].pc = "NewId_write"
  /\ last_id_' = thr[t].tmp + 1
  /\ ids' = Append(ids, thr[t].tmp + 1)
  /\ mutex' = [mutex EXCEPT ![<<"id_mutex_", 0>>] = 0]
  /\ Return(t)
  /\ UNCHANGED <<cvars, hvars, pvars, avars>>

\* The handles the calls in progress may still return, and the entries they
\* may still allocate.
PendingHandles ==
  Cardinality({t \in Threads : thr[t].op \in {"Insert", "Lookup"}})
PendingEntries == SumTo([t \in Threads |->
                          IF thr[t].op = "Insert" THEN thr[t].tmp ELSE 0],
                       NThreads)

\* The state of the caches after a step that leaves them as w.
CommitT(w) == Commit(w) /\ UNCHANGED destroyed

\* void AdaptiveCache::Release(handle) { real->Release(handle); }
\* The client gives up the handle when it makes the call.
Release_Call(t, handle) ==
  /\ held[handle] > 0
  /\ Call(t, "Release_lock", [op |-> "Release", h |-> handle,
                              s |-> Shard(heap[handle].hash)])
  /\ held' = [held EXCEPT ![handle] = @ - 1]
  /\ UNCHANGED <<heap, shard, deleted, delInTable, nextH, removed, failed,
                 stored, destroyed, hvars, pvars, avars, mutex, last_id_, ids>>

Release_Lock(t) ==
  /\ thr[t].pc = "Release_lock"
  /\ Lock(t, <<"real", thr[t].s>>)
  /\ Goto(t, "Release_body", <<>>)
  /\ UNCHANGED <<cvars, hvars, pvars, avars, last_id_, ids>>

Release_Body(t) ==
  /\ thr[t].pc = "Release_body"
  /\ LET w == ShardedLRUCache_Release(World, "real", thr[t].h)
     IN CommitT(w) /\ stored' = Forget(w, stored)
  /\ mutex' = [mutex EXCEPT ![<<"real", thr[t].s>>] = 0]
  /\ Return(t)
  /\ UNCHANGED <<held, hvars, pvars, avars, last_id_, ids>>

\* What the threads insert and look up: keys of one shard, with charge 1.
ThreadInputs == {in \in AdaptiveInputs : in[3] = 1}

\* AdaptiveCache::Lookup(key, ghostHit); the caller's int starts as 0 and is
\* the local tmp.
Lookup_Call(t, key) ==
  /\ TotalHeld + PendingHandles < MaxHandles
  /\ Call(t, "Lookup_lock", [op |-> "Lookup", key |-> key,
                             s |-> Shard(HashSlice(key))])
  /\ UNCHANGED <<cvars, hvars, pvars, avars, mutex, last_id_, ids>>

\* real->Lookup(key)
Lookup_Lock(t) ==
  /\ thr[t].pc = "Lookup_lock"
  /\ Lock(t, <<"real", thr[t].s>>)
  /\ Goto(t, "Lookup_body", <<>>)
  /\ UNCHANGED <<cvars, hvars, pvars, avars, last_id_, ids>>

Lookup_Body(t) ==
  /\ thr[t].pc = "Lookup_body"
  /\ LET r == ShardedLRUCache_Lookup(World, "real", thr[t].key)
     IN /\ CommitT(r.w)
        /\ IF r.h # NULL
           THEN held' = [held EXCEPT ![r.h] = @ + 1] /\ Return(t)
           ELSE held' = held /\ Goto(t, "Lookup_glock", <<>>)
  /\ mutex' = [mutex EXCEPT ![<<"real", thr[t].s>>] = 0]
  /\ UNCHANGED <<stored, hvars, pvars, avars, last_id_, ids>>

\* ghost->Lookup(key)
Lookup_GLock(t) ==
  /\ thr[t].pc = "Lookup_glock"
  /\ Lock(t, <<"ghost", thr[t].s>>)
  /\ Goto(t, "Lookup_gbody", <<>>)
  /\ UNCHANGED <<cvars, hvars, pvars, avars, last_id_, ids>>

\* ... and, on a hit, ghostHit = *(int*)ghost->Value(handle)
Lookup_GBody(t) ==
  /\ thr[t].pc = "Lookup_gbody"
  /\ LET r == ShardedLRUCache_Lookup(World, "ghost", thr[t].key)
     IN /\ CommitT(r.w)
        /\ IF r.h # NULL
           THEN Goto(t, "Lookup_grlock",
                     [h |-> r.h, tmp |-> ShardedLRUCache_Value(r.w, r.h)])
           ELSE Return(t)
  /\ mutex' = [mutex EXCEPT ![<<"ghost", thr[t].s>>] = 0]
  /\ UNCHANGED <<held, stored, hvars, pvars, avars, last_id_, ids>>

\* ghost->Release(handle)
Lookup_GRLock(t) ==
  /\ thr[t].pc = "Lookup_grlock"
  /\ Lock(t, <<"ghost", thr[t].s>>)
  /\ Goto(t, "Lookup_grelease", <<>>)
  /\ UNCHANGED <<cvars, hvars, pvars, avars, last_id_, ids>>

Lookup_GRelease(t) ==
  /\ thr[t].pc = "Lookup_grelease"
  /\ LET w == ShardedLRUCache_Release(World, "ghost", thr[t].h)
     IN CommitT(w) /\ stored' = Forget(w, stored)
  /\ mutex' = [mutex EXCEPT ![<<"ghost", thr[t].s>>] = 0]
  /\ Return(t)
  /\ UNCHANGED <<held, hvars, pvars, avars, last_id_, ids>>

\* AdaptiveCache::Insert, that is LRUCache::Insert with ghost on the shard of
\* the key.  tmp is the number of entries the call may still allocate: its
\* own, and one in ghost for every entry of the shard it may evict.
Insert_Call(t, key, value, charge) ==
  /\ TotalHeld + PendingHandles < MaxHandles
  /\ LET s == Shard(HashSlice(key))
         need == 1 + Cardinality(TableEntries(shard["real"][s].table_))
                   + Cardinality({u \in Threads : thr[u].pc = "Insert_lock"})
     IN /\ (nextH - 1) + PendingEntries + need <= MaxEntries
        /\ Call(t, "Insert_lock", [op |-> "Insert", key |-> key,
                                   value |-> value, charge |-> charge,
                                   s |-> s, tmp |-> need])
  /\ UNCHANGED <<cvars, hvars, pvars, avars, mutex, last_id_, ids>>

Insert_Lock(t) ==
  /\ thr[t].pc = "Insert_lock"
  /\ Lock(t, <<"real", thr[t].s>>)
  /\ Goto(t, "Insert_body", <<>>)
  /\ UNCHANGED <<cvars, hvars, pvars, avars, last_id_, ids>>

\* The test of the eviction loop on the caches as w, by the thread t that
\* holds handle h on its new entry: another pass, or the return of h.
Insert_While(t, w, h) ==
  LET sh == w.shard["real"][thr[t].s]
  IN /\ CommitT(w)
     /\ stored' = Forget(w, [stored EXCEPT ![h] = thr[t].value])
     /\ IF SizeLess(sh.capacity_, sh.usage_) /\ sh.lru_ # <<>> /\ ~w.failed
        THEN /\ Goto(t, "Insert_glock", [h |-> h, tmp |-> thr[t].tmp - 1])
             /\ held' = held
             /\ mutex' = mutex
        ELSE /\ Return(t)
             /\ held' = [held EXCEPT ![h] = 1]
             /\ mutex' = [mutex EXCEPT ![<<"real", thr[t].s>>] = 0]

\* The allocation of the entry and, when capacity_ > 0, its insertion.
Insert_Body(t) ==
  /\ thr[t].pc = "Insert_body"
  /\ Insert_While(t, NewEntry(World, "real", thr[t].s, thr[t].key,
                              HashSlice(thr[t].key), thr[t].value,
                              thr[t].charge),
                  nextH)
  /\ UNCHANGED <<hvars, pvars, avars, last_id_, ids>>

\* ghost->Insert(old->key, new int(old->charge), 1, deleter)
Insert_GLock(t) ==
  /\ thr[t].pc = "Insert_glock"
  /\ Lock(t, <<"ghost", thr[t].s>>)
  /\ Goto(t, "Insert_gbody", <<>>)
  /\ UNCHANGED <<cvars, hvars, pvars, avars, last_id_, ids>>

Insert_GBody(t) ==
  /\ thr[t].pc = "Insert_gbody"
  /\ LET old == Head(shard["real"][thr[t].s].lru_)
         hd == ShardedLRUCache_Insert(World, "ghost", heap[old].key,
                                      ToInt(heap[old].charge), 1)
     IN /\ CommitT(hd.w)
        /\ stored' = Forget(hd.w, stored)
        /\ Goto(t, "Insert_grlock", [sum |-> hd.h])
  /\ mutex' = [mutex EXCEPT ![<<"ghost", thr[t].s>>] = 0]
  /\ UNCHANGED <<held, hvars, pvars, avars, last_id_, ids>>

\* ghost->Release(hd)
Insert_GRLock(t) ==
  /\ thr[t].pc = "Insert_grlock"
  /\ Lock(t, <<"ghost", thr[t].s>>)
  /\ Goto(t, "Insert_grelease", <<>>)
  /\ UNCHANGED <<cvars, hvars, pvars, avars, last_id_, ids>>

\* ... then FinishErase(table_.Remove(old->key(), old->hash)) and the test
\* of the loop.
Insert_GRelease(t) ==
  /\ thr[t].pc = "Insert_grelease"
  /\ LET w1 == ShardedLRUCache_Release(World, "ghost", thr[t].sum)
         w2 == EvictOne(w1, "real", thr[t].s,
                        Head(shard["real"][thr[t].s].lru_))
         sh == w2.shard["real"][thr[t].s]
         h == thr[t].h
     IN /\ CommitT(w2)
        /\ stored' = Forget(w2, stored)
        /\ IF SizeLess(sh.capacity_, sh.usage_) /\ sh.lru_ # <<>> /\ ~w2.failed
           THEN /\ Goto(t, "Insert_glock", [tmp |-> thr[t].tmp - 1])
                /\ held' = held
                /\ mutex' = [mutex EXCEPT ![<<"ghost", thr[t].s>>] = 0]
           ELSE /\ Return(t)
                /\ held' = [held EXCEPT ![h] = 1]
                /\ mutex' = [mutex EXCEPT ![<<"ghost", thr[t].s>>] = 0,
                                          ![<<"real", thr[t].s>>] = 0]
  /\ UNCHANGED <<hvars, pvars, avars, last_id_, ids>>

\* size_t TotalCharge(): for (s = 0; s < kNumShards; s++) total +=
\* shard_[s].TotalCharge(), each under the mutex of the shard; the model
\* visits the shards of Shards.  sum is the total of ghost, sum2 of real.
FirstShard == CHOOSE s \in Shards : \A x \in Shards : s <= x
NextShard(s) ==
  CHOOSE n \in Shards : n > s /\ \A x \in Shards : x > s => n <= x

Total_Lock(t) ==
  /\ thr[t].pc = "Total_lock"
  /\ Lock(t, <<thr[t].c, thr[t].s>>)
  /\ Goto(t, "Total_read", <<>>)
  /\ UNCHANGED <<cvars, hvars, pvars, avars, last_id_, ids>>

\* A TotalCharge that keeps the mutex of every shard it has read.
Total_Read_KeepLock(t) ==
  /\ thr[t].pc = "Total_read"
  /\ LET c == thr[t].c
         s == thr[t].s
         u == LRUCache_TotalCharge(World, c, s)
         sums == IF c = "ghost" THEN [sum |-> thr[t].sum + u]
                 ELSE [sum2 |-> thr[t].sum2 + u]
     IN /\ mutex' = mutex
        /\ IF \E x \in Shards : x > s
           THEN Goto(t, "Total_lock", [s |-> NextShard(s)] @@ sums)
           ELSE IF c = thr[t].first
           THEN Goto(t, "Total_lock",
                     [c |-> CHOOSE o \in Caches : o # c, s |-> FirstShard]
                       @@ sums)
           ELSE IF thr[t].op = "TotalCharge" THEN Return(t)
           ELSE Goto(t, "AdjustCapacity_ghost", sums)
  /\ UNCHANGED <<cvars, hvars, pvars, avars, last_id_, ids>>

Total_Read(t) ==
  /\ thr[t].pc = "Total_read"
  /\ LET c == thr[t].c
         s == thr[t].s
         u == LRUCache_TotalCharge(World, c, s)
         sums == IF c = "ghost" THEN [sum |-> thr[t].sum + u]
                 ELSE [sum2 |-> thr[t].sum2 + u]
     IN /\ mutex' = [mutex EXCEPT ![<<c, s>>] = 0]
        /\ IF \E x \in Shards : x > s
           THEN Goto(t, "Total_lock", [s |-> NextShard(s)] @@ sums)
           ELSE IF c = thr[t].first
           THEN Goto(t, "Total_lock",
                     [c |-> CHOOSE o \in Caches : o # c, s |-> FirstShard]
                       @@ sums)
           ELSE IF thr[t].op = "TotalCharge" THEN Return(t)
           ELSE Goto(t, "AdjustCapacity_ghost", sums)
  /\ UNCHANGED <<cvars, hvars, pvars, avars, last_id_, ids>>

\* size_t AdaptiveCache::TotalCharge() { return real->TotalCharge() +
\* ghost->TotalCharge(); }: the operand first is evaluated first.
TotalCharge_Call(t, first) ==
  /\ Call(t, "Total_lock", [op |-> "TotalCharge", first |-> first,
                            c |-> first, s |-> FirstShard])
  /\ UNCHANGED <<cvars, hvars, pvars, avars, mutex, last_id_, ids>>

\* The adjustments the threads ask for.
ThreadAdjustments == {2049, 4100}

\* void AdaptiveCache::AdjustCapacity(int adjustment); tmp is adjustment,
\* first the operand of the division that is evaluated first.
AdjustCapacity_Call(t, adjustment, first) ==
  /\ Call(t, "AdjustCapacity_lock", [op |-> "AdjustCapacity",
                                     tmp |-> adjustment, first |-> first])
  /\ UNCHANGED <<cvars, hvars, pvars, avars, mutex, last_id_, ids>>

\* MutexLock l(&mutex_)
AdjustCapacity_Lock(t) ==
  /\ thr[t].pc = "AdjustCapacity_lock"
  /\ Lock(t, <<"mutex_", 0>>)
  /\ Goto(t, "AdjustCapacity_acc", <<>>)
  /\ UNCHANGED <<cvars, hvars, pvars, avars, last_id_, ids>>

\* accumulateAdjustment += adjustment and the test of the threshold
AdjustCapacity_Acc(t) ==
  /\ thr[t].pc = "AdjustCapacity_acc"
  /\ LET acc1 == accumulateAdjustment + thr[t].tmp
     IN IF acc1 > 4096 \/ acc1 < -4096
        THEN /\ accumulateAdjustment' = 0
             /\ Goto(t, "Total_lock", [c |-> thr[t].first, s |-> FirstShard])
             /\ mutex' = mutex
        ELSE /\ accumulateAdjustment' = acc1
             /\ Return(t)
             /\ mutex' = [mutex EXCEPT ![<<"mutex_", 0>>] = 0]
  /\ UNCHANGED <<cvars, hvars, pvars, capacity_, ghostHit, evicted, adjusts,
                 last_id_, ids>>

\* ghost->AdjustCapacity(static_cast<int>(adjustment * ratio / (ratio + 1.0)))
\* The share of real is kept in sum2.
AdjustCapacity_Ghost(t) ==
  /\ thr[t].pc = "AdjustCapacity_ghost"
  /\ \E undef \in IF thr[t].sum2 = 0 THEN UndefinedInts ELSE {0},
        eg, er \in IF thr[t].sum > 0 /\ thr[t].sum2 > 0 THEN {0, 1} ELSE {0} :
       LET sr == Shares(thr[t].tmp, thr[t].sum, thr[t].sum2, undef, eg, er)
           a == ShardedLRUCache_AdjustCapacity(shard["ghost"],
                                               capacity_["ghost"], sr.ghost)
       IN /\ shard' = [shard EXCEPT !["ghost"] = a.shard]
          /\ capacity_' = [capacity_ EXCEPT !["ghost"] = a.capacity_]
          /\ Goto(t, "AdjustCapacity_real", [sum2 |-> sr.real])
  /\ UNCHANGED <<heap, deleted, delInTable, nextH, removed, failed, held,
                 stored, destroyed, hvars, pvars, accumulateAdjustment, ghostHit,
                 evicted, adjusts, mutex, last_id_, ids>>

\* An AdjustCapacity that returns with mutex_ still held.
AdjustCapacity_Real_KeepLock(t) ==
  /\ thr[t].pc = "AdjustCapacity_real"
  /\ LET a == ShardedLRUCache_AdjustCapacity(shard["real"], capacity_["real"],
                                             thr[t].sum2)
     IN /\ shard' = [shard EXCEPT !["real"] = a.shard]
        /\ capacity_' = [capacity_ EXCEPT !["real"] = a.capacity_]
  /\ mutex' = mutex
  /\ Return(t)
  /\ UNCHANGED <<heap, deleted, delInTable, nextH, removed, failed, held,
                 stored, destroyed, hvars, pvars, accumulateAdjustment, ghostHit,
                 evicted, adjusts, last_id_, ids>>

\* real->AdjustCapacity(static_cast<int>(adjustment / (ratio + 1.0))); l is
\* destroyed.
AdjustCapacity_Real(t) ==
  /\ thr[t].pc = "AdjustCapacity_real"
  /\ LET a == ShardedLRUCache_AdjustCapacity(shard["real"], capacity_["real"],
                                             thr[t].sum2)
     IN /\ shard' = [shard EXCEPT !["real"] = a.shard]
        /\ capacity_' = [capacity_ EXCEPT !["real"] = a.capacity_]
  /\ mutex' = [mutex EXCEPT ![<<"mutex_", 0>>] = 0]
  /\ Return(t)
  /\ UNCHANGED <<heap, deleted, delInTable, nextH, removed, failed, held,
                 stored, destroyed, hvars, pvars, accumulateAdjustment, ghostHit,
                 evicted, adjusts, last_id_, ids>>

ThreadCapacities == {<<16, 16>>}

TInit == \E cap \in ThreadCapacities : InitCaches(cap[1], cap[2])

TNext ==
  \E t \in Threads :
     \/ NewId_Call(t) \/ NewId_Lock(t) \/ NewId_Read(t) \/ NewId_Write(t)
     \/ \E handle \in Handles : Release_Call(t, handle)
     \/ Release_Lock(t) \/ Release_Body(t)
     \/ \E in \in ThreadInputs : Lookup_Call(t, in[1])
     \/ Lookup_Lock(t) \/ Lookup_Body(t)
     \/ Lookup_GLock(t) \/ Lookup_GBody(t)
     \/ Lookup_GRLock(t) \/ Lookup_GRelease(t)
     \/ \E in \in ThreadInputs : Insert_Call(t, in[1], in[2], in[3])
     \/ Insert_Lock(t) \/ Insert_Body(t)
     \/ Insert_GLock(t) \/ Insert_GBody(t)
     \/ Insert_GRLock(t) \/ Insert_GRelease(t)
     \/ \E first \in Caches : TotalCharge_Call(t, first)
     \/ Total_Lock(t) \/ Total_Read(t)
     \/ \E adjustment \in ThreadAdjustments, first \in Caches :
          AdjustCapacity_Call(t, adjustment, first)
     \/ AdjustCapacity_Lock(t) \/ AdjustCapacity_Acc(t)
     \/ AdjustCapacity_Ghost(t) \/ AdjustCapacity_Real(t)

SpecThreads == TInit /\ [][TNext]_vars

\* ------------------------------------------------------------ fairness
\* The mutex a thread is waiting for, if it is at a MutexLock.
NoLock == <<"", 0>>
WaitsFor(t) ==
  LET pc == thr[t].pc
  IN CASE pc = "NewId_lock" -> <<"id_mutex_", 0>>
       [] pc = "AdjustCapacity_lock" -> <<"mutex_", 0>>
       [] pc \in {"Release_lock", "Lookup_lock", "Insert_lock"} ->
            <<"real", thr[t].s>>
       [] pc \in {"Lookup_glock", "Lookup_grlock", "Insert_glock",
                  "Insert_grlock"} -> <<"ghost", thr[t].s>>
       [] pc = "Total_lock" -> <<thr[t].c, thr[t].s>>
       [] OTHER -> NoLock

\* A thread inside a call can take its next step unless it is at a MutexLock
\* on a mutex that is held: this is ENABLED of the steps of t inside a call.
Runnable(t) ==
  /\ thr[t].pc # "idle"
  /\ WaitsFor(t) # NoLock => mutex[WaitsFor(t)] = 0

\* A step of thread t: every step of t changes its pc or its count of calls.
Moves(t) == thr'[t] # thr[t]

\* The scheduler runs every thread that stays runnable: weak fairness of the
\* steps of t inside a call, WF_vars(Moves(t)) with ENABLED written out.
\* Nothing obliges a thread to make a call.
WeakFair(t) == []<>(~Runnable(t)) \/ []<><<Moves(t)>>_vars

SpecThreadsFair ==
  TInit /\ [][TNext]_vars /\ \A t \in Threads : WeakFair(t)

\* ------------------------------------------------------------ shard threads
\* Several threads call Insert, Lookup, Release, Erase, Prune and TotalCharge
\* of one ShardedLRUCache (real).  Every LRUCache method starts with
\* MutexLock l(&mutex_), reads the shard and writes it; the model takes the
\* mutex and the reads in one step and makes the writes, with the return and
\* the destruction of l, in the next.
ShardOps == {"Insert", "Lookup", "Release", "Erase", "Prune", "TotalCharge"}

\* The entries of heap hp that belong to shard s.
InShard(hp, s) == {e \in Handles : hp[e].live /\ Shard(hp[e].hash) = s}

\* What a method reads: the LRUCache and the entries of its shard.
ReadShard(s) ==
  [sh |-> shard["real"][s],
   heap |-> [e \in Handles |->
               IF e \in InShard(heap, s) THEN heap[e] ELSE NoEntry]]

\* The caches as the method of thread t has read them.
AsRead(t) ==
  LET s == thr[t].s
      snap == thr[t].snap
      mine == InShard(snap.heap, s) \cup InShard(heap, s)
  IN [World EXCEPT !.shard["real"][s] = snap.sh,
                   !.heap = [e \in Handles |->
                               IF e \in mine THEN snap.heap[e] ELSE heap[e]]]

\* The LRUCache method of the call of thread t, on the caches as w: the
\* caches it leaves and the value it returns.
ApplyOp(w, t) ==
  LET op == thr[t].op
      s == thr[t].s
      key == thr[t].key
      hash == HashSlice(key)
  IN CASE op = "Insert" ->
            LRUCache_Insert(w, "real", s, key, hash, thr[t].value,
                            thr[t].charge)
       [] op = "Lookup" -> LRUCache_Lookup(w, "real", s, key, hash)
       [] op = "Release" ->
            [w |-> LRUCache_Release(w, "real", s, thr[t].h), h |-> NULL]
       [] op = "Erase" ->
            [w |-> LRUCache_Erase(w, "real", s, key, hash), h |-> NULL]
       [] op = "Prune" -> [w |-> LRUCache_Prune(w, "real", s), h |-> NULL]
       [] OTHER -> [w |-> w, h |-> LRUCache_TotalCharge(w, "real", s)]

\* The handles the client holds after the method of t returned ret.
HeldAfter(t, ret) ==
  IF thr[t].op \in {"Insert", "Lookup"} /\ ret # NULL
  THEN [held EXCEPT ![ret] = @ + 1]
  ELSE held

\* What the client has stored after the method of t left the caches as w.
StoredAfter(t, w, ret) ==
  Forget(w, IF thr[t].op = "Insert" THEN [stored EXCEPT ![ret] = thr[t].value]
            ELSE stored)

\* A call of op: Insert, Lookup and Erase go to the shard of the key, Release
\* to the shard of the entry; Prune and TotalCharge visit the shards in turn.
Shard_Call(t, op, in, handle) ==
  /\ op \in {"Insert", "Lookup"} => TotalHeld + PendingHandles < MaxHandles
  /\ op = "Insert" => (nextH - 1) + PendingEntries + 1 <= MaxEntries
  /\ op = "Release" => held[handle] > 0
  /\ Call(t, "Shard_lock",
          [op |-> op, key |-> in[1], value |-> in[2], charge |-> in[3],
           h |-> IF op = "Release" THEN handle ELSE 0,
           tmp |-> IF op = "Insert" THEN 1 ELSE 0,
           s |-> CASE op \in {"Insert", "Lookup", "Erase"} ->
                       Shard(HashSlice(in[1]))
                   [] op = "Release" -> Shard(heap[handle].hash)
                   [] OTHER -> FirstShard])
  /\ held' = IF op = "Release" THEN [held EXCEPT ![handle] = @ - 1] ELSE held
  /\ UNCHANGED <<heap, shard, deleted, delInTable, nextH, removed, failed,
                 stored, destroyed, hvars, pvars, avars, mutex, last_id_, ids>>

\* A method that does not wait for the mutex of the shard.
Shard_Lock_NoWait(t) ==
  /\ thr[t].pc = "Shard_lock"
  /\ mutex' = [mutex EXCEPT ![<<"real", thr[t].s>>] = t]
  /\ Goto(t, "Shard_body", [snap |-> ReadShard(thr[t].s)])
  /\ UNCHANGED <<cvars, hvars, pvars, avars, last_id_, ids>>

\* MutexLock l(&mutex_), and the reads of the method
Shard_Lock(t) ==
  /\ thr[t].pc = "Shard_lock"
  /\ Lock(t, <<"real", thr[t].s>>)
  /\ Goto(t, "Shard_body", [snap |-> ReadShard(thr[t].s)])
  /\ UNCHANGED <<cvars, hvars, pvars, avars, last_id_, ids>>

\* The writes of the method and its return; sum is the total of TotalCharge,
\* which the thread keeps when the call has returned.
Shard_Body(t) ==
  /\ thr[t].pc = "Shard_body"
  /\ LET r == ApplyOp(AsRead(t), t)
         s == thr[t].s
         sum == IF thr[t].op = "TotalCharge" THEN thr[t].sum + r.h ELSE 0
     IN /\ CommitT(r.w)
        /\ held' = HeldAfter(t, r.h)
        /\ stored' = StoredAfter(t, r.w, r.h)
        /\ IF thr[t].op \in {"Prune", "TotalCharge"} /\ \E x \in Shards : x > s
           THEN Goto(t, "Shard_lock",
                     [s |-> NextShard(s), sum |-> sum, snap |-> <<>>])
           ELSE thr' = [thr EXCEPT ![t] = [Idle(thr[t].n) EXCEPT !.sum = sum]]
  /\ mutex' = [mutex EXCEPT ![<<"real", thr[t].s>>] = 0]
  /\ UNCHANGED <<hvars, pvars, avars, last_id_, ids>>

\* What the threads insert, look up and erase: a key of shard 0 and one of
\* shard 1, with charge 1.
ShardInputs == {in \in Inputs : in[1] \in {1, 4} /\ in[3] = 1}

SInit == \E cap \in ThreadCapacities : InitCaches(cap[1], cap[2])

SNext ==
  \E t \in Threads :
     \/ \E op \in ShardOps, in \in ShardInputs, handle \in Handles :
          /\ op \notin {"Insert", "Lookup", "Erase"} =>
               in = CHOOSE x \in ShardInputs : TRUE
          /\ op # "Release" => handle = 1
          /\ Shard_Call(t, op, in, handle)
     \/ Shard_Lock(t)
     \/ Shard_Body(t)

SpecShard == SInit /\ [][SNext]_vars

\* ------------------------------------------------------------ properties
NoAssertFails == ~failed

Allocated == 1 .. (nextH - 1)
InTable(c, s) == TableEntries(shard[c][s].table_)
InAnyTable == UNION {InTable(c, s) : c \in Caches, s \in Shards}
OnLists(c, s) == Range(shard[c][s].lru_) \cup Range(shard[c][s].in_use_)
Count(seq, e) == Cardinality({i \in 1 .. Len(seq) : seq[i] = e})

\* C1: while the cache exists, in every state between operations the usage_
\* of every shard is the sum of the charges of the entries in that shard's
\* hash table, and TotalCharge() of the sharded cache is the sum of the
\* charges of the entries in all its shards' tables.
C1_ChargeConservation ==
  ~destroyed =>
    \A c \in Caches :
      /\ \A s \in Shards :
           shard[c][s].usage_ = SumCharge(heap, InTable(c, s))
      /\ ShardedLRUCache_TotalCharge(World, c) =
           SumCharge(heap, UNION {InTable(c, s) : s \in Shards})

\* Two shards of the real cache hold entries, of charges 1 and 2.
C1_Witness ==
  /\ ~destroyed
  /\ shard["real"][0].usage_ > 0
  /\ shard["real"][1].usage_ > 0
  /\ ShardedLRUCache_TotalCharge(World, "real") >= 3

\* C2 as stated: the deleter of every entry runs at most once, exactly once
\* by the time the cache is destroyed, never while a client handle is
\* outstanding, and never while the entry is in a hash table.
C2_Original ==
  /\ \A e \in Handles :
       /\ deleted[e] <= 1
       /\ deleted[e] = 1 <=> (e \in Allocated /\ ~heap[e].live)
       /\ deleted[e] = 1 => held[e] = 0
       /\ destroyed /\ e \in Allocated => deleted[e] = 1
  /\ delInTable = {}

\* C2: the deleter of every entry runs at most once, exactly once by the
\* time the cache is destroyed, never while a client handle is outstanding,
\* and, unless it runs from the destructor of the cache (which leaves the
\* hash table as it is), never while the entry is in a hash table.
C2_DeleterOnce ==
  /\ \A e \in Handles :
       /\ deleted[e] <= 1
       /\ deleted[e] = 1 <=> (e \in Allocated /\ ~heap[e].live)
       /\ deleted[e] = 1 => held[e] = 0
       /\ destroyed /\ e \in Allocated => deleted[e] = 1
  /\ ~destroyed =>
       /\ delInTable = {}
       /\ \A e \in InAnyTable : deleted[e] = 0

\* The cache was destroyed with entries in it, after other entries had been
\* deleted by Release, Erase or eviction.
C2_Witness ==
  /\ destroyed
  /\ delInTable # {}
  /\ \E e \in Allocated : e \notin delInTable

\* C3: an entry on which a client holds a handle is alive, its deleter has
\* not run, and Value(handle) is the value that was inserted, whatever
\* Erase, overwrite, eviction or Prune did meanwhile; a step that runs the
\* deleter of an entry that had a handle is the Release of its last handle.
C3_HandleValid ==
  /\ [](\A e \in Handles :
          held[e] > 0 =>
            /\ heap[e].live
            /\ deleted[e] = 0
            /\ ShardedLRUCache_Value(World, e) = stored[e])
  /\ [][\A e \in Handles :
          held[e] > 0 /\ deleted'[e] > deleted[e] =>
            held[e] = 1 /\ held'[e] = 0]_vars

\* A handle is held on an entry that was overwritten: its key now maps to
\* another entry.
C3_Witness ==
  \E e \in Handles :
    /\ held[e] > 0
    /\ heap[e].live
    /\ ~heap[e].in_cache
    /\ LET sh == shard["real"][Shard(heap[e].hash)]
       IN /\ sh.capacity_ > 0
          /\ HandleTable_Lookup(heap, sh.table_, heap[e].key, heap[e].hash)
               \notin {NULL, e}

\* C4: every live entry has refs >= 1 and refs = (client handles on it) +
\* (1 if in_cache); when no handle is outstanding, every cached entry has
\* refs = 1 and is on lru_, and in_use_ is empty.
C4_RefcountExact ==
  /\ \A e \in Handles :
       heap[e].live =>
         /\ heap[e].refs >= 1
         /\ heap[e].refs = held[e] + (IF heap[e].in_cache THEN 1 ELSE 0)
  /\ ~destroyed /\ TotalHeld = 0 =>
       \A c \in Caches, s \in Shards :
         /\ shard[c][s].in_use_ = <<>>
         /\ \A e \in InTable(c, s) :
              heap[e].refs = 1 /\ e \in Range(shard[c][s].lru_)

\* An entry with two client handles and the cache's reference.
C4_Witness == \E e \in Handles : heap[e].in_cache /\ held[e] = 2 /\ heap[e].refs = 3

\* C5: while the cache exists, an entry with in_cache is in the hash table
\* of its shard (of one cache) and exactly once on exactly one list of that
\* shard: in_use_ if refs >= 2, lru_ if refs = 1; the tables and lists hold
\* live entries with in_cache only, so a live entry without in_cache is on
\* no list and in no table.
C5_ListMembership ==
  ~destroyed =>
    /\ \A c \in Caches, s \in Shards :
         LET sh == shard[c][s]
             tab == InTable(c, s)
         IN \A e \in tab \cup OnLists(c, s) :
              /\ heap[e].live /\ heap[e].in_cache
              /\ Shard(heap[e].hash) = s
              /\ e \in tab
              /\ Count(sh.lru_, e) + Count(sh.in_use_, e) = 1
              /\ heap[e].refs >= 2 => Count(sh.in_use_, e) = 1
              /\ heap[e].refs = 1 => Count(sh.lru_, e) = 1
    /\ \A e \in Handles :
         heap[e].live /\ heap[e].in_cache =>
           Cardinality({c \in Caches :
                          e \in InTable(c, Shard(heap[e].hash))}) = 1

\* One shard has an entry on lru_ and an entry on in_use_, and a detached
\* entry is alive.
C5_Witness ==
  /\ ~destroyed
  /\ \E s \in Shards :
       shard["real"][s].lru_ # <<>> /\ shard["real"][s].in_use_ # <<>>
  /\ \E e \in Handles : heap[e].live /\ ~heap[e].in_cache

\* What the eviction loop of the last Insert on cache c removed, in order.
Evictions(log, c) ==
  SelectSeq(log, LAMBDA x : x.by = "Insert" /\ x.c = c)

RECURSIVE LogCharge(_)
LogCharge(log) ==
  IF log = <<>> THEN 0 ELSE Head(log).charge + LogCharge(Tail(log))

\* C8: every entry an eviction loop of Insert or of Insert-with-ghost removed
\* had refs = 1 when it was removed and has no client handle, also when usage
\* stays above capacity because all remaining entries are in use.
C8_EvictUnreferencedOnly ==
  \A i \in 1 .. Len(removed) :
    removed[i].by = "Insert" =>
      removed[i].refs = 1 /\ held[removed[i].e] = 0

\* An Insert evicted what it could and left the shard above its capacity
\* with every remaining entry in use.
C8_Witness ==
  LET ev == Evictions(removed, "real")
  IN /\ ev # <<>>
     /\ LET sh == shard["real"][ev[1].s]
        IN sh.usage_ > sh.capacity_ /\ sh.lru_ = <<>> /\ Len(sh.in_use_) >= 2

\* C9: a Prune of a shard leaves its lru_ empty and its in_use_ as it was;
\* afterwards a key whose entry had no client handle is not found, a key
\* whose entry had a client handle is found with the same entry and value,
\* and usage_ is the sum of the charges of the entries on in_use_.
C9_PruneExact ==
  [][\A s \in Shards :
       shard["real"][s].lru_ # <<>> /\ removed' # <<>> /\ PruneStep(s) =>
         LET sh == shard["real"][s]
             sh2 == shard'["real"][s]
         IN /\ sh2.lru_ = <<>>
            /\ sh2.in_use_ = sh.in_use_
            /\ sh2.usage_ = SumCharge(heap', Range(sh2.in_use_))
            /\ \A key \in Keys :
                 Shard(HashSlice(key)) = s =>
                   LET e == HandleTable_Lookup(heap, sh.table_, key,
                                               HashSlice(key))
                       e2 == HandleTable_Lookup(heap', sh2.table_, key,
                                                HashSlice(key))
                   IN /\ e = NULL => e2 = NULL
                      /\ e # NULL /\ held[e] = 0 => e2 = NULL
                      /\ e # NULL /\ held[e] > 0 =>
                           e2 = e /\ heap'[e].value = heap[e].value]_vars

\* A Prune removed an entry from a shard in which another entry is in use.
C9_Witness ==
  /\ removed # <<>>
  /\ removed[1].by = "Prune"
  /\ shard["real"][removed[1].s].in_use_ # <<>>
  /\ shard["real"][removed[1].s].lru_ = <<>>

\* The shard of key has capacity_ > 0 and holds an entry for key.
Overwrites(key) ==
  LET hash == HashSlice(key)
      sh == shard["real"][Shard(hash)]
  IN sh.capacity_ > 0 /\ HandleTable_Lookup(heap, sh.table_, key, hash) # NULL

\* What Insert(key, value, charge) on the real cache then does, old being
\* the entry the shard holds for key.
Overwritten(key, value, charge) ==
  LET hash == HashSlice(key)
      s == Shard(hash)
      sh == shard["real"][s]
      sh2 == shard'["real"][s]
      old == HandleTable_Lookup(heap, sh.table_, key, hash)
      new == nextH
  IN   /\ HandleTable_Lookup(heap', sh2.table_, key, hash) = new
       /\ heap'[new].value = value
       /\ Cardinality({e \in TableEntries(sh2.table_) : heap'[e].key = key}) = 1
       /\ old \notin TableEntries(sh2.table_)
       /\ old \notin Range(sh2.lru_) \cup Range(sh2.in_use_)
       /\ sh2.usage_ = sh.usage_ - heap[old].charge + charge
                          - LogCharge(Evictions(removed', "real"))
       /\ IF held[old] > 0
          THEN /\ heap'[old] = [heap[old] EXCEPT !.in_cache = FALSE,
                                                 !.refs = @ - 1]
               /\ deleted'[old] = 0
               /\ ShardedLRUCache_Value([heap |-> heap'], old) = stored[old]
          ELSE ~heap'[old].live /\ deleted'[old] = 1

\* C10: an Insert (with or without ghost) of a key that a shard with
\* capacity_ > 0 already holds detaches the old entry (in_cache cleared, off
\* its list, out of the table, its charge subtracted from usage_, one
\* reference dropped, which destroys it if no handle is held), leaves exactly
\* one entry for the key in the table, the new one, whose value a following
\* Lookup returns, and leaves the value of a still held old entry as it was.
C10_SameKeyOverwrite ==
  [][\A in \in Inputs :
       /\ nextH' > nextH
       /\ heap'[nextH].key = in[1]
       /\ Overwrites(in[1])
       /\ InsertStep(in[1], in[2], in[3]) \/ InsertARCStep(in[1], in[2], in[3])
       => Overwritten(in[1], in[2], in[3])]_vars

\* An overwritten entry is still held, detached, next to the entry that
\* replaced it in the cache with another value and charge.
C10_Witness ==
  \E old \in Handles, new \in Handles :
    /\ old < new
    /\ heap[old].live /\ heap[new].live
    /\ heap[old].key = heap[new].key
    /\ held[old] > 0 /\ ~heap[old].in_cache
    /\ heap[new].in_cache
    /\ heap[old].value # heap[new].value
    /\ heap[old].charge # heap[new].charge

\* The entries evicted from the real cache by the last Insert left it oldest
\* insertion first and are older, by insertion, than the entries left on lru_.
EvictionInOrder ==
  LET ev == Evictions(removed, "real")
  IN \A i \in 1 .. Len(ev) :
       /\ \A j \in (i + 1) .. Len(ev) : ev[i].e < ev[j].e
       /\ \A f \in Range(shard["real"][ev[i].s].lru_) : ev[i].e < f

\* C6 as stated: with no Lookup so far and no client handle outstanding when
\* the eviction occurs (but the one the evicting Insert returns), entries are
\* evicted in the order of their insertion.
C6_Original == ~anyLookup /\ TotalHeld <= 1 => EvictionInOrder

\* C6: with no Lookup so far and every Insert called while no client handle
\* is outstanding (each handle is released before the next Insert), entries
\* are evicted in the order of their insertion.
C6_EvictionOrder == ~anyLookup /\ ~insOverlap => EvictionInOrder

\* Such an Insert evicted two entries, or one and left another on lru_.
C6_Witness ==
  /\ ~anyLookup /\ ~insOverlap
  /\ LET ev == Evictions(removed, "real")
     IN /\ ev # <<>>
        /\ Len(ev) >= 2 \/ shard["real"][ev[1].s].lru_ # <<>>

\* In this step no entry k that a Lookup has hit is evicted from the real
\* cache while an entry f, untouched since the last Lookup of k (and, if
\* idleOnly, without client handle), is still in the cache.
Recency(idleOnly) ==
  LET ev == Evictions(removed', "real")
  IN \A i \in 1 .. Len(ev) :
       ev[i].e \in looked =>
         \A f \in untouched[ev[i].e] :
           (idleOnly => held[f] = 0) =>
             /\ ~heap'[f].in_cache
             /\ \A j \in (i + 1) .. Len(ev) : ev[j].e # f

\* C7 as stated: an entry that a Lookup has hit is never evicted while an
\* entry of its shard that was not looked up, inserted or released since
\* that Lookup is still in the cache.
C7_Original == [][Recency(FALSE)]_vars

\* C7: an entry that a Lookup has hit is never evicted while an entry of
\* its shard that has no client handle and was not looked up, inserted or
\* released since that Lookup is still in the cache.
C7_RecencyReordering == [][Recency(TRUE)]_vars

\* An entry that a Lookup hit is in the cache, released, after an Insert
\* evicted an entry that was inserted after it.
C7_Witness ==
  \E k \in looked :
    /\ heap[k].in_cache /\ held[k] = 0
    /\ LET ev == Evictions(removed, "real")
       IN ev # <<>> /\ ev[1].e > k /\ ev[1].s = Shard(heap[k].hash)

\* The entry the table of cache c holds for key, NULL if none.
Find(c, key) ==
  HandleTable_Lookup(heap, shard[c][Shard(HashSlice(key))].table_,
                     key, HashSlice(key))

\* C11: an Erase of a key the shard holds makes the key miss, lowers the
\* shard's usage_ by the charge of the entry and destroys the entry at once
\* if no client holds a handle on it, otherwise leaves it alive (C3: until
\* the last Release); a key that misses only hits again by an Insert of that
\* key; an Erase of a key the shard does not hold leaves the table, both
\* lists, usage_ and every entry (its reference count) as they were.
C11_Erase ==
  [][\A key \in Keys :
       LET s == Shard(HashSlice(key))
           e == Find("real", key)
       IN /\ e # NULL /\ shard'["real"][s].usage_ < shard["real"][s].usage_
             /\ nextH' = nextH /\ held' = held /\ EraseStep(key) =>
               /\ Find("real", key)' = NULL
               /\ shard'["real"][s].usage_ =
                    shard["real"][s].usage_ - heap[e].charge
               /\ e \notin OnLists("real", s)'
               /\ heap'[e].live <=> held[e] > 0
               /\ deleted'[e] = (IF held[e] > 0 THEN 0 ELSE 1)
               /\ held[e] > 0 =>
                    heap'[e].refs = held[e] /\ ~heap'[e].in_cache
          /\ e = NULL /\ nextH' = nextH /\ held' = held
             /\ destroyed' = destroyed /\ EraseStep(key) =>
               /\ shard' = shard
               /\ heap' = heap
               /\ deleted' = deleted
          /\ e = NULL /\ ~destroyed /\ Find("real", key)' # NULL =>
               /\ nextH' > nextH
               /\ Find("real", key)' = nextH
               /\ InsertStep(key, heap'[nextH].value, heap'[nextH].charge)
                  \/ InsertARCStep(key, heap'[nextH].value,
                                   heap'[nextH].charge)]_vars

\* A client holds a handle on an erased entry of a shard that caches: the
\* entry is alive, out of the cache, and its key misses.
C11_Witness ==
  \E e \in Allocated :
    /\ ~destroyed
    /\ heap[e].live /\ ~heap[e].in_cache /\ held[e] > 0
    /\ shard["real"][Shard(heap[e].hash)].capacity_ > 0
    /\ Find("real", heap[e].key) = NULL
    /\ shard["real"][Shard(heap[e].hash)].usage_ > 0

\* C12: AdaptiveCache::Lookup(key, ghostHit) of a key that real holds returns
\* its handle and leaves ghostHit as it was; of a key that real misses and
\* ghost holds (an eviction loop of real moved it there) it returns null and
\* sets ghostHit to the charge the entry had when it was last evicted; of a
\* key neither holds it returns null and leaves ghostHit as it was.
C12_GhostHit ==
  [][\A key \in Keys :
       AdaptiveLookupStep(key) =>
         LET r == Find("real", key)
             gk == Find("ghost", key)
         IN /\ r # NULL =>
                 /\ held' = [held EXCEPT ![r] = @ + 1]
                 /\ ghostHit' = ghostHit
            /\ r = NULL /\ gk # NULL =>
                 /\ held' = held
                 /\ evicted[key] > 0
                 /\ ghostHit' = evicted[key]
            /\ r = NULL /\ gk = NULL =>
                 /\ held' = held
                 /\ ghostHit' = ghostHit]_vars

\* A Lookup has reported the charge of an evicted key that ghost holds and
\* real misses.
C12_Witness ==
  /\ ghostHit > 0
  /\ \E key \in Keys :
       /\ evicted[key] = ghostHit
       /\ Find("real", key) = NULL
       /\ Find("ghost", key) # NULL

\* An Insert of key into a shard of real whose capacity_ is 0 returns a handle
\* on a live entry with refs == 1 and in_cache false that is in no table and
\* on no list; if unchanged, the shard is left as it was and the key misses.
CapacityZeroInsert(key, unchanged) ==
  LET s == Shard(HashSlice(key))
      sh == shard["real"][s]
      e == nextH
  IN sh.capacity_ = 0 /\ nextH' > nextH /\ heap'[e].key = key
     /\ (\E in \in AdaptiveInputs :
           in[1] = key /\ InsertARCStep(in[1], in[2], in[3])) =>
       /\ held'[e] = 1
       /\ heap'[e].live /\ heap'[e].refs = 1 /\ ~heap'[e].in_cache
       /\ e \notin InAnyTable' /\ e \notin OnLists("real", s)'
       /\ IF unchanged \/ sh.lru_ = <<>>
          THEN /\ shard'["real"][s] = sh
               /\ unchanged \/ sh.in_use_ = <<>> => Find("real", key)' = NULL
          ELSE /\ shard'["real"][s].lru_ = <<>>
               /\ shard'["real"][s].in_use_ = sh.in_use_
               /\ InTable("real", s)' = Range(sh.in_use_)
               /\ shard'["real"][s].usage_ = SumCharge(heap, Range(sh.in_use_))
       /\ Find("real", key)' =
            (IF Find("real", key) \in Range(sh.in_use_)
             THEN Find("real", key) ELSE NULL)

\* The Release of the only handle on an entry that is not in the cache runs
\* its deleter, once.
UncachedRelease ==
  \A e \in Handles :
    heap[e].live /\ ~heap[e].in_cache /\ held[e] = 1 /\ ReleaseStep(e) =>
      ~heap'[e].live /\ deleted[e] = 0 /\ deleted'[e] = 1

IsAdjust(adjustment) ==
  /\ adjusts' = adjusts + 1
  /\ \E undef \in UndefinedInts, eg, er \in {0, 1} :
       AdjustCapacityStep(adjustment, undef, eg, er)

\* The call brings the accumulated adjustment beyond the threshold.
Flushes(adjustment) ==
  \/ accumulateAdjustment + adjustment > 4096
  \/ accumulateAdjustment + adjustment < -4096

\* The quotient num / den truncated towards zero, and the integer a
\* rounding error of the double arithmetic leaves inside it.
Near(num, den) ==
  LET q == IntDiv(num, den)
  IN {q} \cup (IF q > 0 THEN {q - 1} ELSE IF q < 0 THEN {q + 1} ELSE {})

\* The change of the capacity of cache c in this step: of its tracked total
\* and, the same for all, of each of its shards.
Change(c) == capacity_'[c] - capacity_[c]
ShardsChange(c, d) ==
  \A s \in Shards : shard'[c][s].capacity_ = shard[c][s].capacity_ + d

\* Cache c has taken the share sh of an adjustment: added it to its total
\* and a 16th of it to every shard; if floor, a negative share is ignored
\* by a cache whose total is below 8 << 18.
Applied(c, sh, floor) ==
  IF floor /\ sh < 0 /\ SizeLess(capacity_[c], 8 * 2^18)
  THEN Change(c) = 0 /\ ShardsChange(c, 0)
  ELSE Change(c) = sh /\ ShardsChange(c, IntDiv(sh, kNumShards))

\* The capacities change only in a call of AdjustCapacity that brings the
\* accumulated adjustment beyond 4096 or below -4096, which resets the
\* accumulator; any other call adds its argument to the accumulator.
Gated ==
  /\ (\E c \in Caches : Change(c) # 0 \/ ~ShardsChange(c, 0)) =>
       \E adjustment \in Adjustments :
          IsAdjust(adjustment) /\ Flushes(adjustment)
  /\ \A adjustment \in Adjustments :
       IsAdjust(adjustment) =>
         accumulateAdjustment' =
           (IF Flushes(adjustment) THEN 0
            ELSE accumulateAdjustment + adjustment)

\* In a call that flushes with charges g of ghost and r of real, ghost takes
\* adjustment * g / (g + r) and real adjustment * r / (g + r), that is
\* adjustment * ratio / (ratio + 1) and adjustment / (ratio + 1) for
\* ratio = g / r.  As the code has it (floor): a cache below 8 << 18 ignores
\* a negative share and, when r = 0, the shares are casts of doubles that
\* are infinite or not numbers: undefined, but 0 for real when g > 0.
Proportional(floor) ==
  \A adjustment \in Adjustments :
    IsAdjust(adjustment) /\ Flushes(adjustment) =>
      LET g == ShardedLRUCache_TotalCharge(World, "ghost")
          r == ShardedLRUCache_TotalCharge(World, "real")
      IN IF r > 0
         THEN \E sg \in Near(adjustment * g, g + r),
                 sr \in Near(adjustment * r, g + r) :
                /\ sg + sr \in (adjustment - 2) .. (adjustment + 2)
                /\ Applied("ghost", sg, floor)
                /\ Applied("real", sr, floor)
         ELSE IF floor
         THEN \E u \in UndefinedInts :
                /\ Applied("ghost", u, floor)
                /\ Applied("real", IF g > 0 THEN 0 ELSE u, floor)
         ELSE /\ \A c \in Caches : Change(c) \in -(8 * 2^18) .. (8 * 2^18)
              /\ Change("ghost") + Change("real")
                   \in (adjustment - 2) .. (adjustment + 2)

\* C19 as stated: the capacities change only in a call that brings the
\* accumulated adjustment beyond the threshold of 4096; that call resets the
\* accumulator, and the changes of the capacities of real and ghost sum to
\* its delta within truncation, ghost taking delta * ratio / (ratio + 1) and
\* real delta / (ratio + 1).
C19_Original == [][Gated /\ Proportional(FALSE)]_vars

\* C19: the capacities change only in a call that brings the accumulated
\* adjustment beyond the threshold of 4096; that call resets the accumulator
\* and, when the charge of real is not 0, passes delta * ratio / (ratio + 1)
\* to ghost and delta / (ratio + 1) to real, truncated (the two sum to delta
\* within 2); when the charge of real is 0 it passes 0 to real if ghost has
\* charge, and otherwise values the language leaves undefined; each cache
\* adds its share to its capacity, and a 16th of it to each shard, but
\* ignores a negative share when its capacity is below 8 << 18.
C19_ThresholdGatedRebalance == [][Gated /\ Proportional(TRUE)]_vars

\* A flush has split an adjustment between ghost and real, both holding
\* entries: neither capacity is the one it was constructed with.
C19_Witness ==
  /\ adjusts > 0 /\ accumulateAdjustment = 0
  /\ capacity_["real"] \notin {16, 8 * 2^18}
  /\ capacity_["ghost"] \notin {16, 8 * 2^18}
  /\ capacity_["real"] # capacity_["ghost"]

\* C20: a call of AdjustCapacity that flushes while the total charge of real
\* is 0 adds its whole delta to the capacity of real and leaves the capacity
\* of ghost as it was.
C20_EmptyRealRebalance ==
  [][\A adjustment \in Adjustments :
       IsAdjust(adjustment) /\ Flushes(adjustment)
       /\ ShardedLRUCache_TotalCharge(World, "real") = 0 =>
         /\ Change("real") = adjustment
         /\ Change("ghost") = 0]_vars

\* ------------------------------------------------------------ threads
Distinct(seq) == \A i, j \in 1 .. Len(seq) : i # j => seq[i] # seq[j]

\* C14: under any interleaving of NewId() calls of several threads the ids
\* returned are pairwise distinct, every NewId returns last_id_ + 1 and
\* leaves last_id_ that value, and last_id_ never decreases.
C14_NewIdUnique ==
  /\ [](Distinct(ids))
  /\ [][/\ last_id_' >= last_id_
        /\ ids' # ids => /\ ids' = Append(ids, last_id_ + 1)
                          /\ last_id_' = last_id_ + 1]_vars

\* Both threads have returned from NewId, one of them having waited for
\* id_mutex_ while the other held it.
C14_Witness ==
  /\ Len(ids) >= 2
  /\ \E t \in Threads : thr[t].pc = "NewId_lock" /\ mutex[<<"id_mutex_", 0>>] # 0

ShardLocks == Caches \X Shards

\* C16 as stated: no thread holds more than one of the locks at a time,
\* except inside AdaptiveCache::AdjustCapacity, and there no mutex of a shard
\* is held together with the accumulator mutex.
C16_Original ==
  \A t \in Threads :
     /\ Cardinality(Holds(t)) <= 1 \/ thr[t].op = "AdjustCapacity"
     /\ thr[t].op = "AdjustCapacity" /\ Holds(t) \cap ShardLocks # {}
          => <<"mutex_", 0>> \notin Holds(t)

\* The locks thread t holds are those the code nests.
Nested(t) ==
  \/ Cardinality(Holds(t)) <= 1
  \/ /\ thr[t].op = "Insert"
     /\ Holds(t) = {<<"real", thr[t].s>>, <<"ghost", thr[t].s>>}
  \/ /\ thr[t].op = "AdjustCapacity"
     /\ \E l \in ShardLocks : Holds(t) = {<<"mutex_", 0>>, l}

\* A thread that takes a lock while it holds one takes a shard mutex under
\* the accumulator mutex, or the ghost mutex under the real mutex of the
\* same shard index.
NestingOrder(t) ==
  \A l \in Locks :
     mutex[l] # t /\ mutex'[l] = t /\ Holds(t) # {} =>
       \/ Holds(t) = {<<"mutex_", 0>>} /\ l \in ShardLocks
       \/ \E s \in Shards : Holds(t) = {<<"real", s>>} /\ l = <<"ghost", s>>

\* C16, amended: a thread holds at most two of the locks at a time, and two
\* only inside Insert, which takes the ghost mutex of a shard index while it
\* holds the real mutex of that index, and inside AdjustCapacity, which
\* holds the accumulator mutex while TotalCharge takes the shard mutexes one
\* at a time; the NewId mutex is never held together with another lock.
C16_LockNesting ==
  /\ [](\A t \in Threads : Nested(t))
  /\ [][\A t \in Threads : NestingOrder(t)]_vars

\* One thread is inside the eviction loop of Insert with both shard mutexes
\* while another is inside AdjustCapacity with the accumulator mutex and a
\* shard mutex.
C16_Witness ==
  \E t, u \in Threads :
     /\ thr[t].op = "Insert" /\ Cardinality(Holds(t)) = 2
     /\ thr[u].op = "AdjustCapacity" /\ Cardinality(Holds(u)) = 2

\* The cache whose shards' capacity_ the next step of thread t writes, and
\* the shards whose capacity_ its next step reads.
WritesCapacity(t) ==
  CASE thr[t].pc = "AdjustCapacity_ghost" -> {"ghost"}
    [] thr[t].pc = "AdjustCapacity_real" -> {"real"}
    [] OTHER -> {}
ReadsCapacity(t) ==
  CASE thr[t].pc \in {"Insert_body", "Insert_grelease"} ->
         {<<"real", thr[t].s>>}
    [] thr[t].pc = "Insert_gbody" -> {<<"ghost", thr[t].s>>}
    [] OTHER -> {}

\* C18: capacity_ of a shard is read and written only by a thread that holds
\* the mutex of the shard, so no thread is about to write the capacity_ of a
\* shard while another thread is in the Insert that reads it.
C18_MutexCoverage ==
  \A t \in Threads :
     /\ \A c \in WritesCapacity(t), s \in Shards : mutex[<<c, s>>] = t
     /\ \A l \in ReadsCapacity(t) : mutex[l] = t
     /\ \A u \in Threads \ {t} :
          \A l \in ReadsCapacity(u) : l[1] \notin WritesCapacity(t)

\* The race itself: one thread in the eviction loop of Insert on a shard of
\* real, the other about to add to the capacity_ of the shards of real.
C18_Race ==
  \E t, u \in Threads :
     /\ thr[t].pc = "AdjustCapacity_real"
     /\ thr[u].pc = "Insert_grelease"

\* Some thread is inside a call and every such thread waits for a mutex
\* that is held.
Stuck ==
  /\ \E t \in Threads : thr[t].pc # "idle"
  /\ \A t \in Threads : ~Runnable(t)

\* C17: the threads inside calls never all wait for each other, and under
\* fair scheduling every call of Insert, Lookup, Release, TotalCharge, NewId
\* and AdjustCapacity that a thread makes eventually returns.
C17_Completion ==
  /\ []~Stuck
  /\ \A t \in Threads : thr[t].pc # "idle" ~> thr[t].pc = "idle"

\* A thread waits for a shard mutex held by a thread that is inside the
\* eviction loop of Insert with the real and the ghost mutex of the shard.
C17_Witness ==
  \E t, u \in Threads :
     /\ WaitsFor(t) # NoLock
     /\ mutex[WaitsFor(t)] = u
     /\ thr[u].op = "Insert"
     /\ Cardinality(Holds(u)) = 2

\* The call of thread t takes effect in this step as the LRUCache method on
\* the shard as it is now: same caches, same returned handle or charge.
Linearized(t) ==
  LET r == ApplyOp(World, t)
  IN /\ CommitT(r.w)
     /\ held' = HeldAfter(t, r.h)
     /\ stored' = StoredAfter(t, r.w, r.h)
     /\ thr[t].op = "TotalCharge" => thr'[t].sum = thr[t].sum + r.h

\* C15: in every interleaving of Insert, Lookup, Release, Erase, Prune and
\* TotalCharge calls of several threads, every call on a shard takes effect
\* at one step between its invocation and its return, with the return value
\* and the shard state the method gives when run alone on the shard at that
\* step, and no other step changes the caches: the calls are equal to their
\* serial execution in the order of these steps, which keeps the order of
\* the calls of each thread.
C15_Linearizable ==
  [][\/ \E t \in Threads :
          thr[t].pc = "Shard_body" /\ Moves(t) /\ Linearized(t)
     \/ UNCHANGED <<heap, shard, deleted, nextH, stored>>]_vars

\* A thread waits for the mutex of a shard that holds an entry while the
\* other thread is between the reads and the writes of an Erase of it.
C15_Witness ==
  \E t, u \in Threads :
     /\ thr[t].pc = "Shard_lock" /\ thr[t].op = "Insert"
     /\ thr[u].pc = "Shard_body" /\ thr[u].op = "Erase"
     /\ thr[u].s = thr[t].s
     /\ shard["real"][thr[u].s].usage_ > 0

\* ------------------------------------------------ capacity adjustment
\* This step is a call ShardedLRUCache::AdjustCapacity(adjustment) of cache c.
IsShardedAdjust(c, adjustment) ==
  adjusts' = adjusts + 1 /\ ShardedAdjustStep(c, adjustment)

Other(c) == IF c = "real" THEN "ghost" ELSE "real"

\* C22: ShardedLRUCache::AdjustCapacity(delta) with delta < 0 and a tracked
\* total below 8 << 18 changes no shard capacity and not the tracked total;
\* any other call changes the capacity of every shard by delta / 16
\* truncated towards zero and the tracked total by delta, so that the
\* residue delta - 16 * (delta / 16) reaches no shard; the other cache is
\* left as it was.
C22_FloorAndDistribution ==
  [][\A c \in Adjusted, adjustment \in ShardedAdjustments :
       IsShardedAdjust(c, adjustment) =>
         /\ IF adjustment < 0 /\ SizeLess(capacity_[c], 8 * 2^18)
            THEN Change(c) = 0 /\ ShardsChange(c, 0)
            ELSE /\ Change(c) = adjustment
                 /\ ShardsChange(c, IntDiv(adjustment, kNumShards))
                 /\ \A s \in Shards :
                      16 * (shard'[c][s].capacity_ - shard[c][s].capacity_)
                        = adjustment - (adjustment - 16 * IntDiv(adjustment, 16))
         /\ Change(Other(c)) = 0 /\ ShardsChange(Other(c), 0)]_vars

\* An adjustment of 17 has added 17 to the total of real and 1 to each of
\* its shards, and a negative one has been ignored by a cache below the
\* floor.
C22_Witness ==
  /\ adjusts = 2
  /\ capacity_["real"] = 16 + 17 /\ capacity_["ghost"] = 16
  /\ \A s \in Shards : shard["real"][s].capacity_ = 2

\* C23: a ShardedLRUCache::AdjustCapacity(delta) with delta < 0 whose share
\* |delta / 16| is larger than the capacity of a shard leaves that shard a
\* capacity that is, as a size_t, no larger than it was (near zero, not
\* wrapped around to a large unsigned value), and likewise the tracked total
\* when |delta| is larger than it.
C23_NoWrap ==
  [][\A c \in Adjusted, adjustment \in ShardedAdjustments :
       IsShardedAdjust(c, adjustment) /\ adjustment < 0
       /\ ~SizeLess(capacity_[c], 8 * 2^18) =>
         /\ \A s \in Shards :
              SizeLess(shard[c][s].capacity_, -IntDiv(adjustment, kNumShards))
                => ~SizeLess(shard[c][s].capacity_, shard'[c][s].capacity_)
         /\ SizeLess(capacity_[c], -adjustment)
              => ~SizeLess(capacity_[c], capacity_'[c])]_vars

\* A shard of real whose capacity_ an adjustment of more than its whole has
\* wrapped to 2^64 - 1 keeps on its lru_ list the entries, of total charge 3,
\* of the Inserts that followed, where a capacity near zero keeps none; the
\* tracked total has wrapped as well, to 2^64 - 16.
C23_Wrapped ==
  \E s \in Shards :
    /\ shard["real"][s].capacity_ = -1
    /\ capacity_["real"] = -16
    /\ Len(shard["real"][s].lru_) >= 2
    /\ shard["real"][s].usage_ = 3

\* The entries of seq that are not in S are the first n of seq, for some n.
EvictedOldestFirst(seq, S) ==
  \E n \in 0 .. Len(seq) : \A i \in 1 .. Len(seq) : (seq[i] \notin S) <=> i <= n

\* C24: an AdjustCapacity changes nothing but capacities: it evicts nothing
\* and leaves every entry, its refs, and the usage_, table_, lru_ and in_use_
\* of every shard as they were, also when a capacity_ falls below usage_; the
\* entries in excess leave the table only in a later Insert into their
\* shard, which takes them from the head of lru_ (the oldest first; an older
\* entry of the inserted key is replaced wherever it is).
C24_LazyShrink ==
  [][/\ \A c \in Adjusted, adjustment \in ShardedAdjustments :
          IsShardedAdjust(c, adjustment) =>
            /\ heap' = heap /\ deleted' = deleted /\ held' = held
            /\ \A c2 \in Caches, s \in Shards :
                 shard'[c2][s] =
                   [shard[c2][s] EXCEPT !.capacity_ = shard'[c2][s].capacity_]
     /\ \A s \in Shards :
          ~(InTable("real", s) \subseteq InTable("real", s)') =>
            /\ nextH' > nextH
            /\ Shard(heap'[nextH].hash) = s
            /\ LET others == SelectSeq(shard["real"][s].lru_,
                               LAMBDA e : heap[e].key # heap'[nextH].key)
               IN EvictedOldestFirst(others, InTable("real", s)')]_vars

\* An adjustment has brought the capacity_ of a shard of real from 131072 to
\* 1, below its usage_ of 2; the two entries are still on its lru_ list.
C24_Witness ==
  /\ capacity_["real"] = 16 /\ capacity_["ghost"] = 8 * 2^18
  /\ \E s \in Shards :
       /\ shard["real"][s].capacity_ = 1
       /\ shard["real"][s].usage_ = 2
       /\ Len(shard["real"][s].lru_) = 2

\* Shard s of cache c holds more than its capacity_ although its lru_ list
\* has entries to evict.
Excess(c, s) ==
  SizeLess(shard[c][s].capacity_, shard[c][s].usage_) /\ shard[c][s].lru_ # <<>>

\* This step is an Insert, with or without ghost, into shard s of real.
IsInsert(s) == nextH' > nextH /\ Shard(heap'[nextH].hash) = s

\* C26: when an Insert or an Insert with ghost returns, the shard of real it
\* inserted into has usage_ <= capacity_ or an empty lru_ list, every entry
\* it still caches being on in_use_ with a client handle; a shard comes to
\* hold more than its capacity_ with a non-empty lru_ list only by an
\* AdjustCapacity that lowers its capacity_ or by a Release, and stays so
\* at most until the next Insert into it.
C26_PostInsertBound ==
  [][\A s \in Shards :
       /\ IsInsert(s) =>
            /\ ~Excess("real", s)'
            /\ SizeLess(shard'["real"][s].capacity_, shard'["real"][s].usage_)
                 => \A e \in InTable("real", s)' :
                       e \in Range(shard'["real"][s].in_use_) /\ held'[e] > 0
       /\ ~Excess("real", s) /\ Excess("real", s)' =>
            \/ /\ \E adjustment \in ShardedAdjustments :
                    IsShardedAdjust("real", adjustment)
               /\ SizeLess(shard'["real"][s].capacity_,
                           shard["real"][s].capacity_)
            \/ \E handle \in Handles :
                  /\ ReleaseStep(handle)
                  /\ held'[handle] = 0
                  /\ Shard(heap[handle].hash) = s]_vars

\* An Insert has returned from a shard of capacity_ 1, lowered from 131072,
\* that had an entry of charge 2 on lru_: it has evicted the entry, and the
\* shard is within its capacity_.
C26_Witness ==
  /\ capacity_["real"] = 16 /\ capacity_["ghost"] = 8 * 2^18
  /\ \E i \in 1 .. Len(removed) :
       /\ removed[i].by = "Insert" /\ removed[i].c = "real"
       /\ removed[i].charge = 2
       /\ shard["real"][removed[i].s].capacity_ = 1
       /\ shard["real"][removed[i].s].lru_ = <<>>
       /\ shard["real"][removed[i].s].usage_ = 1

\* ------------------------------------------------ real and ghost
\* C27: between the calls of an AdaptiveCache no key is both in real and in
\* ghost: ghost holds a key only from its eviction from real until it is
\* inserted again.
C27_Disjoint ==
  \A key \in Keys : ~(Find("real", key) # NULL /\ Find("ghost", key) # NULL)

\* Key 1, which ghost holds since its eviction, has been inserted again: real
\* holds the new entry, and ghost still holds the charge of the evicted one.
C27_Stale ==
  /\ Find("real", 1) # NULL
  /\ Find("ghost", 1) # NULL
  /\ heap[Find("ghost", 1)].value = evicted[1]

\* C28: the capacity the AdjustCapacity calls of an AdaptiveCache have
\* added to real and ghost together is the sum of their deltas less what
\* accumulateAdjustment holds, within the truncation of each flush; that is,
\* call by call, the capacities change by delta less the change of the
\* accumulator, so that a flush hands on all that was accumulated.  (For
\* calls that the floor of 8 << 18 does not stop, with charge in real.)
C28_Conservation ==
  [][\A adjustment \in Adjustments :
       IsAdjust(adjustment)
       /\ ShardedLRUCache_TotalCharge(World, "real") > 0
       /\ (adjustment < 0 =>
             \A c \in Caches : ~SizeLess(capacity_[c], 8 * 2^18)) =>
         Change("real") + Change("ghost")
           - (adjustment - (accumulateAdjustment' - accumulateAdjustment))
             \in -2 .. 2]_vars

\* Two calls have asked for 2048 and 2049; the second has reset the
\* accumulator, and real and ghost together have gained 2049.
C28_Lost ==
  /\ adjusts = 2 /\ accumulateAdjustment = 0
  /\ \A c \in Caches : capacity_[c] \in 0 .. 2^22
  /\ \E cap \in AdaptiveCapacities :
       capacity_["real"] + capacity_["ghost"] = cap[1] + cap[2] + 2049

\* ------------------------------------------------------------ PointCache
\* C21: PointCache::AdjustCapacity(delta) passes delta * ratio / (1 + ratio)
\* to kv and delta / (1 + ratio) to kp, for ratio the total charge of kv by
\* that of kp: two defined values, also when a charge is 0, that sum to
\* delta within the truncation.
C21_WellDefinedPortions ==
  passed # <<>> =>
    /\ passed.kv \in -(8 * 2^18) .. (8 * 2^18)
    /\ passed.kp \in -(8 * 2^18) .. (8 * 2^18)
    /\ passed.adjustment - (passed.kv + passed.kp) \in -2 .. 2
    /\ passed.kpc > 0 =>
         /\ passed.kv \in Near(passed.adjustment * passed.kvc,
                               passed.kvc + passed.kpc)
         /\ passed.kp \in Near(passed.adjustment * passed.kpc,
                               passed.kvc + passed.kpc)

\* AdjustCapacity(-(8 << 18)) was called with entries in kv and none in kp:
\* it has passed INT_MIN to kv, whose real cache has taken it all and
\* wrapped its capacity_ of 8 << 18 to 2^64 + 2^21 - 2^31, and 0 to kp.
C21_Undefined ==
  /\ passed # <<>>
  /\ passed.adjustment = -(8 * 2^18)
  /\ passed.kvc > 0 /\ passed.kpc = 0
  /\ passed.kv = INT_MIN /\ passed.kp = 0
  /\ capacity_["real"] = 8 * 2^18 + INT_MIN
  /\ kp.capacity_["real"] = 8 * 2^18

\* ------------------------------------------------------------ BlockCache
\* C25: a call of the single-argument Lookup, of Erase or of Prune of an
\* AdaptiveCache, or of the single-argument Lookup or of Erase of a
\* BlockCache, ends in the failure of an assert and leaves real and ghost,
\* every entry and every handle as they were; an assert fails in no other
\* call.
C25_Unsupported ==
  [][/\ \A op \in UnsupportedOps, key \in Keys :
          UnsupportedStep(op, key) =>
            /\ failed'
            /\ heap' = heap /\ shard' = shard /\ capacity_' = capacity_
            /\ deleted' = deleted /\ held' = held /\ nextH' = nextH
     /\ failed' =>
          \E op \in UnsupportedOps, key \in Keys : UnsupportedStep(op, key)]_vars

\* An assert has failed in a cache that holds an entry in real, one in
\* ghost and a client handle.
C25_Witness ==
  /\ failed
  /\ \E key \in Keys : Find("real", key) # NULL
  /\ \E key \in Keys : Find("ghost", key) # NULL
  /\ TotalHeld > 0

====
